---------------------------- MODULE Spec2Model ----------------------------
(***************************************************************************)
(* Model of the chat endpoint of the retail chat assistant: the two        *)
(* variants of the POST handler (the stateless one and the one that keeps  *)
(* the conversation history in a key-value store), the keyword mapping     *)
(* cache they share, and the text-search index and language model they     *)
(* call.                                                                   *)
(*                                                                         *)
(* Representation.  A JavaScript string is a sequence of symbols; a symbol *)
(* is a one-character TLA+ string, except that a long fixed literal of the *)
(* source (a note, the default usage paragraph) is one symbol.  The empty  *)
(* string is << >>.  Values that are not strings (null, undefined, a       *)
(* number where a string is expected) are the one-symbol sequences Null,   *)
(* Undefined and NotAString, whose symbol starts with '#'.  Prices and     *)
(* price ceilings are integers in hundredths of a currency unit, scores    *)
(* are integers in hundredths.                                             *)
(***************************************************************************)
EXTENDS Integers, Sequences, FiniteSets, TLC

(***************************************************************************)
(* Bounds of the model.                                                    *)
(***************************************************************************)
\* longest ranked list the search index returns for one query
MaxResults == 2
\* longest product_types list the language model returns
MaxTypes == 2

(***************************************************************************)
(* JavaScript values and string primitives.                                *)
(***************************************************************************)
Null == <<"#null">>
Undefined == <<"#undefined">>
NotAString == <<"#number">>

IsString(v) == v \notin {Null, Undefined, NotAString}

\* JavaScript truthiness of a string-or-nullish value
Truthy(v) == IsString(v) /\ Len(v) > 0

\* a || b for string-or-nullish operands
OrElse(a, b) == IF Truthy(a) THEN a ELSE b

\* a ?? b
Coalesce(a, b) == IF a \in {Null, Undefined} THEN b ELSE a

UpperToLower ==
  [c \in {"A","B","C","D","E","F","G","H","I","J","K","L","M","N","O","P","Q",
          "R","S","T","U","V","W","X","Y","Z"} |->
     CASE c = "A" -> "a" [] c = "B" -> "b" [] c = "C" -> "c" [] c = "D" -> "d"
       [] c = "E" -> "e" [] c = "F" -> "f" [] c = "G" -> "g" [] c = "H" -> "h"
       [] c = "I" -> "i" [] c = "J" -> "j" [] c = "K" -> "k" [] c = "L" -> "l"
       [] c = "M" -> "m" [] c = "N" -> "n" [] c = "O" -> "o" [] c = "P" -> "p"
       [] c = "Q" -> "q" [] c = "R" -> "r" [] c = "S" -> "s" [] c = "T" -> "t"
       [] c = "U" -> "u" [] c = "V" -> "v" [] c = "W" -> "w" [] c = "X" -> "x"
       [] c = "Y" -> "y" [] c = "Z" -> "z"]

\* String.prototype.toLowerCase
toLowerCase(s) ==
  [i \in 1..Len(s) |-> IF s[i] \in DOMAIN UpperToLower THEN UpperToLower[s[i]] ELSE s[i]]

\* String.prototype.includes
includes(s, t) ==
  \E i \in 0..(Len(s) - Len(t)) : SubSeq(s, i + 1, i + Len(t)) = t

RECURSIVE trimStart(_)
trimStart(s) == IF Len(s) > 0 /\ Head(s) = " " THEN trimStart(Tail(s)) ELSE s

RECURSIVE trimEnd(_)
trimEnd(s) ==
  IF Len(s) > 0 /\ s[Len(s)] = " " THEN trimEnd(SubSeq(s, 1, Len(s) - 1)) ELSE s

\* String.prototype.trim
trim(s) == trimEnd(trimStart(s))

\* String.prototype.split on a one-character separator: the list of the
\* pieces between separators ("" splits into the one piece "")
RECURSIVE split(_, _)
split(s, sep) ==
  IF \A i \in 1..Len(s) : s[i] # sep
    THEN <<s>>
    ELSE LET k == CHOOSE i \in 1..Len(s) :
                     s[i] = sep /\ \A j \in 1..(i - 1) : s[j] # sep
         IN  <<SubSeq(s, 1, k - 1)>> \o split(SubSeq(s, k + 1, Len(s)), sep)

\* Array.prototype.join
RECURSIVE join(_, _)
join(parts, sep) ==
  IF Len(parts) = 0 THEN << >>
  ELSE IF Len(parts) = 1 THEN parts[1]
  ELSE parts[1] \o sep \o join(Tail(parts), sep)

\* [...new Set(list)]: the first occurrence of every element, in order
RECURSIVE unique(_)
unique(s) ==
  IF Len(s) = 0 THEN << >>
  ELSE LET front == unique(SubSeq(s, 1, Len(s) - 1))
           last == s[Len(s)]
       IN  IF \E i \in 1..Len(front) : front[i] = last THEN front
           ELSE Append(front, last)

Range(s) == {s[i] : i \in 1..Len(s)}

Min(a, b) == IF a <= b THEN a ELSE b
Max(a, b) == IF a >= b THEN a ELSE b

(***************************************************************************)
(* parsePrice: strip every character that is not a digit or a dot, then    *)
(* parseFloat, then "|| 0".  parseFloat reads the longest prefix of the    *)
(* form digits [. digits] holding at least one digit; anything else is NaN *)
(* and becomes 0.  The value is returned in hundredths; fraction digits    *)
(* beyond the second are dropped (no price of the catalog has them).       *)
(***************************************************************************)
Digits == {"0","1","2","3","4","5","6","7","8","9"}

DigitValue(c) ==
  CASE c = "0" -> 0 [] c = "1" -> 1 [] c = "2" -> 2 [] c = "3" -> 3 [] c = "4" -> 4
    [] c = "5" -> 5 [] c = "6" -> 6 [] c = "7" -> 7 [] c = "8" -> 8 [] c = "9" -> 9

\* priceStr.replace(/[^0-9.]/g, '')
cleanPrice(priceStr) == SelectSeq(priceStr, LAMBDA c : c \in Digits \cup {"."})

\* the longest prefix of s made of digits
RECURSIVE digitPrefix(_)
digitPrefix(s) ==
  IF Len(s) > 0 /\ Head(s) \in Digits THEN <<Head(s)>> \o digitPrefix(Tail(s)) ELSE << >>

RECURSIVE digitsValue(_)
digitsValue(ds) ==
  IF Len(ds) = 0 THEN 0 ELSE 10 * digitsValue(SubSeq(ds, 1, Len(ds) - 1)) + DigitValue(ds[Len(ds)])

\* parseFloat(cleaned) || 0, in hundredths
parseFloatOrZero(cleaned) ==
  LET int == digitPrefix(cleaned)
      rest == SubSeq(cleaned, Len(int) + 1, Len(cleaned))
      frac == IF Len(rest) > 0 /\ Head(rest) = "." THEN digitPrefix(Tail(rest)) ELSE << >>
      tenths == IF Len(frac) >= 1 THEN DigitValue(frac[1]) ELSE 0
      hundredths == IF Len(frac) >= 2 THEN DigitValue(frac[2]) ELSE 0
  IN  IF Len(int) = 0 /\ Len(frac) = 0 THEN 0
      ELSE 100 * digitsValue(int) + 10 * tenths + hundredths

parsePrice(priceStr) == parseFloatOrZero(cleanPrice(priceStr))

\* parseInt(s, 10) of a string without sign or leading blanks: <<n>> is the
\* number n read from the leading digits, << >> is NaN
NaN == << >>
parseInt(s) == IF Len(digitPrefix(s)) = 0 THEN NaN ELSE <<digitsValue(digitPrefix(s))>>

(***************************************************************************)
(* The catalog held by the text-search index: the metadata stored under    *)
(* each record id.  p2 has a price with no number in it and no variant id; *)
(* p3 lacks the required handle, so it fails the structural validation;    *)
(* p4 is a second lipstick, a variant of p1 at another price.              *)
(***************************************************************************)
CatalogIds == {"p1", "p2", "p3", "p4"}

Catalog ==
  [id \in CatalogIds |->
     CASE id = "p1" ->
            [id |-> <<"p1">>, handle |-> <<"h1">>, title |-> <<"R","e","d"," ","L","i","p","s","t","i","c","k">>,
             price |-> <<"$","1","2",".","5","0">>, imageUrl |-> Null, productUrl |-> <<"/p1">>,
             variantId |-> <<"v1">>, vendor |-> <<"E","n","j","o","y">>,
             productType |-> <<"M","a","k","e","u","p"," ",">"," ","L","i","p","s","t","i","c","k">>, tags |-> <<"V","e","g","a","n",","," ","M","a","t","t","e">>]
       [] id = "p2" ->
            [id |-> <<"p2">>, handle |-> <<"h2">>, title |-> <<"F","a","c","e"," ","W","a","s","h">>,
             price |-> <<"N","/","A">>, imageUrl |-> <<"/i2">>, productUrl |-> <<"/p2">>,
             variantId |-> Undefined, vendor |-> Null,
             productType |-> <<"S","k","i","n"," ",">"," ","W","a","s","h">>, tags |-> <<"g","e","l">>]
       [] id = "p3" ->
            [id |-> <<"p3">>, handle |-> Undefined, title |-> <<"L","i","p"," ","K","i","t">>,
             price |-> <<"$","1">>, imageUrl |-> Null, productUrl |-> <<"/p3">>,
             variantId |-> <<"v3">>, vendor |-> <<"E","n","j","o","y">>,
             productType |-> <<"L","i","p","s","t","i","c","k">>, tags |-> <<"v","e","g","a","n">>]
       [] id = "p4" ->
            [id |-> <<"p4">>, handle |-> <<"h4">>, title |-> <<"R","e","d"," ","L","i","p","s","t","i","c","k">>,
             price |-> <<"$","1","1">>, imageUrl |-> Null, productUrl |-> <<"/p4">>,
             variantId |-> <<"v4">>, vendor |-> <<"E","n","j","o","y">>,
             productType |-> <<"M","a","k","e","u","p"," ",">"," ","L","i","p","s","t","i","c","k">>, tags |-> <<"V","e","g","a","n",","," ","M","a","t","t","e">>]]

\* the metadata of a search hit
Meta(hit) == Catalog[hit.id]

isProductVectorMetadata(m) ==
  /\ IsString(m.id)
  /\ IsString(m.handle)
  /\ IsString(m.title)
  /\ IsString(m.price)
  /\ (m.imageUrl = Null \/ IsString(m.imageUrl))
  /\ IsString(m.productUrl)

\* productType.split('>').pop()?.trim().toLowerCase() || ''
normalizeType(productType) ==
  LET parts == split(productType, ">")
  IN  toLowerCase(trim(parts[Len(parts)]))

\* tags.split(',').map(t => t.trim().toLowerCase())
tagListOf(tags) ==
  LET parts == split(tags, ",")
  IN  [i \in 1..Len(parts) |-> toLowerCase(trim(parts[i]))]

(***************************************************************************)
(* The keyword mapping cache.  typeToKeywords and synonyms are functions   *)
(* on the normalized types seen; defaultComboTypes is a list.              *)
(***************************************************************************)
EmptyMappings ==
  [typeToKeywords |-> << >>, synonyms |-> << >>, defaultComboTypes |-> << >>]

\* obj[key] of a Record<string, T>: undefined when the key is absent
Lookup(obj, key, absent) == IF key \in DOMAIN obj THEN obj[key] ELSE absent

\* obj with obj[key] = value
Assign(obj, key, value) ==
  [k \in DOMAIN obj \cup {key} |-> IF k = key THEN value ELSE obj[k]]

\* the body of the loop of buildDynamicMappings for one scanned record
scanRecord(acc, hit) ==
  LET m == Meta(hit)
      normalizedType ==
        IF Truthy(m.productType) THEN normalizeType(m.productType) ELSE << >>
      tagList == IF Truthy(m.tags) THEN tagListOf(m.tags) ELSE << >>
      titleWords == IF Truthy(m.title) THEN split(toLowerCase(m.title), " ") ELSE << >>
      keywords ==
        join(<<normalizedType>> \o tagList \o SubSeq(titleWords, 1, Min(3, Len(titleWords))),
             <<" ">>)
      syns ==
        unique(Lookup(acc.synonyms, normalizedType, << >>) \o tagList
               \o SelectSeq(titleWords, LAMBDA word : Len(word) > 3))
  IN  IF ~isProductVectorMetadata(m) THEN acc
      ELSE IF Len(normalizedType) = 0 THEN acc
      ELSE [typeToKeywords |-> Assign(acc.typeToKeywords, normalizedType, keywords),
            synonyms |-> Assign(acc.synonyms, normalizedType, syns),
            productTypes |-> unique(Append(acc.productTypes, normalizedType))]

RECURSIVE scanAll(_, _)
scanAll(acc, results) ==
  IF Len(results) = 0 THEN acc
  ELSE scanAll(scanRecord(acc, Head(results)), Tail(results))

\* the mappings buildDynamicMappings assigns after a scan that returned results
builtMappings(results) ==
  LET acc == scanAll([typeToKeywords |-> << >>, synonyms |-> << >>,
                      productTypes |-> << >>], results)
  IN  [typeToKeywords |-> acc.typeToKeywords,
       synonyms |-> acc.synonyms,
       defaultComboTypes |-> SubSeq(acc.productTypes, 1, Min(3, Len(acc.productTypes)))]

\* the scan of the whole catalog ('all products', topK 1000)
CatalogScan ==
  <<[id |-> "p1", score |-> 150], [id |-> "p2", score |-> 150],
    [id |-> "p3", score |-> 50], [id |-> "p4", score |-> 50]>>

(***************************************************************************)
(* The text-search index.  A query returns a ranked list of hits with      *)
(* pairwise distinct record ids, best score first, or it throws.           *)
(***************************************************************************)
\* scores in hundredths: below both similarity thresholds, above both
Scores == {50, 150}

Hits == [id : CatalogIds \ {"p4"}, score : Scores]

RankedLists(hits) ==
  {r \in UNION {[1..n -> hits] : n \in 0..MaxResults} :
     /\ \A i, j \in 1..Len(r) : i # j => r[i].id # r[j].id
     /\ \A i \in 1..(Len(r) - 1) : r[i].score >= r[i + 1].score}

\* the lists over p1, p2 and p3, which every query can return
EngineResults == RankedLists(Hits)

\* the lists over the whole catalog, all of them above both thresholds
WholeCatalogResults == RankedLists([id : CatalogIds, score : {150}])

\* what vectorIndex.query can do for a query asking for k records; p4 is
\* returned to the requests that sort several types by price
EngineOutcomes(k, wholeCatalog) ==
  {[throws |-> TRUE, results |-> << >>]}
    \cup {[throws |-> FALSE, results |-> r] :
            r \in {e \in (IF wholeCatalog THEN EngineResults \cup WholeCatalogResults
                           ELSE EngineResults) : Len(e) <= k}}

(***************************************************************************)
(* Fixed texts of the source.                                              *)
(***************************************************************************)
IssueNote == <<"\n", "(Note: There was an issue searching for products.)">>
FallbackNote ==
  <<"\n", "(Sorry, we couldn't find exact matches for your request, but here are some related products you might like.)">>
NoProductsNote == <<"\n", "(I couldn't find specific products matching your request.)">>
DefaultUsageInstructions == <<"For skincare products: ... consult a specialist if irritation occurs.">>
ErrorAdvicePrefix == <<"Sorry, I encountered a problem processing your request. (Ref: ">>
FoundDescription == <<"Found product related to your query.">>
RelatedDescription == <<"Related product suggestion.">>
InvalidQueryError == <<"Invalid query provided">>

\* the chat:user123 key holds nothing / a string that is not JSON / JSON that
\* is no array / the JSON of a list of turns
NoValue == [kind |-> "none", turns |-> << >>]

(***************************************************************************)
(* Inputs: request bodies, stored values, answers of the language model.   *)
(***************************************************************************)
PlainQuery == <<" ","L","i","p"," ">>
ComboQuery == <<"a"," ","S","E","T">>
CheapestQuery == <<"T","o","p"," ","4"," ","c","h","e","a","p","e","s","t"," ","l","i","p","s","t","i","c","k","s">>
ListQuery == <<"L","i","s","t"," ","l","i","p">>

\* the query member of a body: missing, a number, empty, blank, or a text
Queries ==
  {Undefined, NotAString, << >>, <<" ">>, PlainQuery, ComboQuery, CheapestQuery,
   ListQuery}

Turn(role, text) == [role |-> role, text |-> text]

\* the history of the body: absent (defaults to []), a list of turns, or a
\* value that is no array
ClientHistories ==
  {[kind |-> "absent", turns |-> << >>],
   [kind |-> "array", turns |-> <<Turn("bot", <<"h","i">>)>>],
   [kind |-> "other", turns |-> << >>]}

\* the value of query before a body has been destructured
NotRead == <<"#notread">>

NoHistory == [kind |-> "absent", turns |-> << >>]

\* parses = FALSE: req.json() throws.  Every query comes without a
\* history; one query comes with every history as well.
Bodies ==
  {[parses |-> FALSE, query |-> Undefined, history |-> NoHistory]}
    \cup [parses : {TRUE}, query : Queries, history : {NoHistory}]
    \cup [parses : {TRUE}, query : {CheapestQuery}, history : ClientHistories]

\* what redis.get finds under the key: nothing, a value that is not the
\* JSON of an array, or the JSON of a list of turns
StoredValues ==
  {NoValue,
   [kind |-> "garbage", turns |-> << >>],
   [kind |-> "array", turns |-> <<Turn("user", <<"q","0">>), Turn("bot", <<"a","0">>)>>]}

TypeNames == {<<"l","i","p","s","t","i","c","k">>}

\* price_filter: << >> is null, <<n>> the number n (hundredths)
NoCeiling == << >>
\* attributes: a list of strings; the handler treats an absent list as an empty one
NoAttributes == << >>

\* The answers of the model that are considered are the union of four
\* families, each varying some members of the intent and fixing the others.
\* Answers that vary what the search depends on:
MatchingIntents ==
  [ai_understanding : {<<"wants a product">>},
   search_keywords : {<< >>, <<"l","i","p">>},
   advice : {<<"Try this.">>},
   requested_product_count : {0, 2},
   product_types : UNION {[1..n -> TypeNames] : n \in 0..MaxTypes},
   usage_instructions : {Undefined},
   price_filter : {NoCeiling, <<1000>>},
   sort_by_price : BOOLEAN,
   vendor : {<< >>},
   attributes : {NoAttributes}]

\* answers that vary the texts of the reply
TextIntents ==
  [ai_understanding : {<<"wants a product">>},
   search_keywords : {<<"l","i","p">>},
   advice : {<< >>, <<"Try this.">>},
   requested_product_count : {0},
   product_types : {<< >>},
   usage_instructions : {Undefined, <<"Apply evenly.">>},
   price_filter : {NoCeiling},
   sort_by_price : {FALSE},
   vendor : {<< >>},
   attributes : {NoAttributes}]

\* answers that name a vendor
VendorIntents ==
  [ai_understanding : {<<"wants a product">>},
   search_keywords : {<<"l","i","p">>},
   advice : {<<"Try this.">>},
   requested_product_count : {0},
   product_types : {<< >>, << <<"l","i","p","s","t","i","c","k">> >>},
   usage_instructions : {Undefined},
   price_filter : {NoCeiling},
   sort_by_price : {FALSE},
   vendor : {<<"E","N","J","O","Y">>},
   attributes : {NoAttributes}]

\* answers that carry attributes (the history variant asks for them)
AttributeIntents ==
  [ai_understanding : {<<"wants a product">>},
   search_keywords : {<<"l","i","p">>},
   advice : {<<"Try this.">>},
   requested_product_count : {0},
   product_types : {<< >>, << <<"l","i","p","s","t","i","c","k">> >>},
   usage_instructions : {Undefined},
   price_filter : {NoCeiling, <<1000>>},
   sort_by_price : BOOLEAN,
   vendor : {<< >>},
   attributes : {<< <<"V","e","g","a","n">> >>}]

\* an answer whose product_types holds a number: it passes the type checks,
\* which look at product_types with Array.isArray only
UntypedIntents ==
  [ai_understanding : {<<"wants a product">>},
   search_keywords : {<<"l","i","p">>},
   advice : {<<"Try this.">>},
   requested_product_count : {0},
   product_types : {<<NotAString>>},
   usage_instructions : {Undefined},
   price_filter : {NoCeiling},
   sort_by_price : {FALSE},
   vendor : {<< >>},
   attributes : {NoAttributes}]

\* an answer whose search_keywords is a blank: a string, so it passes the
\* type checks
BlankKeywordIntents ==
  [ai_understanding : {<<"wants a product">>},
   search_keywords : {<<" ">>},
   advice : {<<"Try this.">>},
   requested_product_count : {0},
   product_types : {<< >>},
   usage_instructions : {Undefined},
   price_filter : {NoCeiling},
   sort_by_price : {FALSE},
   vendor : {<< >>},
   attributes : {NoAttributes}]

\* answers to a query that asks for a list: no count, a count, a count
\* above the ten a list is cut to
ListIntents ==
  [ai_understanding : {<<"wants a product">>},
   search_keywords : {<<"l","i","p">>},
   advice : {<<"Try this.">>},
   requested_product_count : {0, 2, 12},
   product_types : {<< >>},
   usage_instructions : {Undefined},
   price_filter : {NoCeiling},
   sort_by_price : {FALSE},
   vendor : {<< >>},
   attributes : {NoAttributes}]

DefaultIntent ==
  [ai_understanding |-> <<"Unable to interpret query intent.">>,
   search_keywords |-> << >>,
   advice |-> <<"Sorry, I had trouble understanding your request.">>,
   requested_product_count |-> 1,
   product_types |-> << >>,
   usage_instructions |-> Undefined,
   price_filter |-> NoCeiling,
   sort_by_price |-> FALSE,
   vendor |-> << >>,
   attributes |-> NoAttributes]

(***************************************************************************)
(* State.                                                                  *)
(***************************************************************************)
VARIABLES
  variant,          \* which of the two handlers is deployed
  geminiModel,      \* the model client was initialised
  vectorIndex,      \* the search client was initialised
  redis,            \* the handler can build a store client
  store,            \* the value under chat:user123
  keywordMappings,  \* the keyword mapping cache
  pc,               \* where the handler is
  query,            \* the query member of the request body
  trimmedQuery,
  history,
  geminiResult,
  searchKeywords,   \* the search text chosen for the current type
  typeIdx,          \* index of the current type in product_types
  usedProductIds,
  slotOfMatch,      \* for each candidate of the multi-type loop, the index of its type
  topMatches,
  searchStageUsed,
  searchNote,
  validMatches,
  selectedMatches,  \* the matches the cards were made from
  finalProductCards,
  maxHistory,       \* parseInt of the configured maximum, read for each request
  response,
  effects,          \* which collaborators the handler has called
  inflight,         \* the handler's history locals, for each of several requests
  redisData         \* the values of the store, by key

\* the catalog synchronisation job
VARIABLES
  syncRoute,        \* which of the two synchronisation endpoints is deployed
  CRON_SECRET,      \* process.env.CRON_SECRET
  secret,           \* the secret parameter of the request
  syncPc,           \* where the job is
  totalWritesToday,
  cursor,           \* the page cursor: TRUE while shopify has a next page
  products,         \* the products of the page at hand, TRUE for one the index holds unchanged
  productIdx,       \* position in the page
  currentBatchPotentialRecords,
  batchToActuallyUpsert,
  retryCount,
  lastBatch,        \* the batch at hand is the one left over after the pages
  counts,           \* fetchedProducts, processedProducts, skippedProducts, productsToUpsertCount, errorCount
  syncResponse,
  syncEffects,      \* which collaborators the job has called
  fetches,          \* pages asked of shopify in this run
  upsertCalls,      \* calls of index.upsert for the batch at hand
  lastUpsert,       \* what the latest call of index.upsert for the batch did
  comparedEqual     \* records that compared equal to the stored ones in this run

\* the command server
VARIABLES
  rpcRequest,       \* the request JsonRpcHandler.handle was called with
  rpcPc,            \* where the handler is
  rpcResult,        \* what CommandProcessor.process returned
  rpcResponses,     \* the responses handle returned for the request
  rpcEffects        \* which collaborators the handler has called

(***************************************************************************)
(* Several requests in flight.  The handler is async: between the awaits   *)
(* of one request the handlers of other requests run.  Each request is     *)
(* sent by the user of a session; the body carries no session.             *)
(***************************************************************************)
\* how many requests are in flight together
MaxRequests == 2
Requests == 1..MaxRequests
Sessions == {"s1", "s2"}

\* const userId = "user123"
userId(session) == "user123"

\* `chat:${userId}`
historyKey(session) == <<"chat:", userId(session)>>

Keys == {historyKey(session) : session \in Sessions}

\* the query a request sends and the advice it is answered with
queryOf(r) == <<"q", r>>
adviceOf(r) == <<"a", r>>

\* a request that has not arrived: no session yet
NotArrived ==
  [pc |-> "idle", session |-> "none", history |-> << >>, returned |-> << >>,
   writesSeen |-> {}, written |-> FALSE]

deployVars == <<variant, geminiModel, vectorIndex, redis>>
syncVars ==
  <<syncRoute, CRON_SECRET, secret, syncPc, totalWritesToday, cursor, products, productIdx,
    currentBatchPotentialRecords, batchToActuallyUpsert, retryCount, lastBatch, counts,
    syncResponse, syncEffects, fetches, upsertCalls, lastUpsert, comparedEqual>>
rpcVars == <<rpcRequest, rpcPc, rpcResult, rpcResponses, rpcEffects>>
\* what a chat request leaves alone
sessionVars == <<inflight, redisData, syncVars, rpcVars>>
searchVars ==
  <<searchKeywords, typeIdx, usedProductIds, slotOfMatch, topMatches, searchStageUsed, searchNote>>
resultVars == <<validMatches, selectedMatches, finalProductCards, maxHistory>>
vars ==
  <<variant, geminiModel, vectorIndex, redis, store, keywordMappings,
    pc, query, trimmedQuery, history, geminiResult, searchKeywords, typeIdx, usedProductIds, slotOfMatch,
    topMatches, searchStageUsed, searchNote, validMatches, selectedMatches,
    finalProductCards, maxHistory, response, effects, inflight, redisData, syncVars, rpcVars>>

NoResponse == [status |-> 0, body |-> << >>]

SIMILARITY_THRESHOLD == IF variant = "stateless" THEN 140 ELSE 70
\* the default of process.env.MAX_CHAT_HISTORY
MAX_CHAT_HISTORY == 10

\* the values of process.env.MAX_CHAT_HISTORY considered: not set for every
\* request, "0" and "3" as well for the request that comes with every
\* client history
EnvMaxHistory ==
  IF query = CheapestQuery THEN {Undefined, <<"0">>, <<"3">>} ELSE {Undefined}

\* parseInt(process.env.MAX_CHAT_HISTORY || '10', 10)
maxHistoryOf(env) == parseInt(OrElse(env, <<"1","0">>))

requestedCount ==
  Max(1, IF geminiResult.requested_product_count = 0 THEN 1
         ELSE geminiResult.requested_product_count)
topK == Max(requestedCount * 2, 10)

\* the state of the chat route after the module was loaded
HandlerInit ==
  /\ variant \in {"stateless", "history"}
  /\ geminiModel \in BOOLEAN
  /\ vectorIndex \in BOOLEAN
  /\ redis \in (IF variant = "history" THEN BOOLEAN ELSE {FALSE})
  /\ store \in (IF redis THEN StoredValues ELSE {NoValue})
  /\ keywordMappings = EmptyMappings
  /\ pc = "idle"
  /\ query = NotRead
  /\ trimmedQuery = << >>
  /\ history = [kind |-> "array", turns |-> << >>]
  /\ geminiResult = DefaultIntent
  /\ searchKeywords = << >>
  /\ typeIdx = 1
  /\ usedProductIds = {}
  /\ slotOfMatch = << >>
  /\ topMatches = << >>
  /\ searchStageUsed = "None"
  /\ searchNote = << >>
  /\ validMatches = << >>
  /\ selectedMatches = << >>
  /\ finalProductCards = << >>
  /\ maxHistory = <<MAX_CHAT_HISTORY>>
  /\ response = NoResponse
  /\ effects = {}
  /\ inflight = [r \in Requests |-> NotArrived]
  /\ redisData = [k \in Keys |-> NoValue]

\* the locals of the synchronisation job before a request
NoCounts ==
  [fetchedProducts |-> 0, processedProducts |-> 0, skippedProducts |-> 0,
   productsToUpsertCount |-> 0, errorCount |-> 0]

\* let totalWritesToday = 0, no request yet
SyncIdle ==
  /\ secret = Null
  /\ syncPc = "idle"
  /\ totalWritesToday = 0
  /\ cursor = FALSE
  /\ products = << >>
  /\ productIdx = 1
  /\ currentBatchPotentialRecords = << >>
  /\ batchToActuallyUpsert = << >>
  /\ retryCount = 0
  /\ lastBatch = FALSE
  /\ counts = NoCounts
  /\ syncResponse = NoResponse
  /\ syncEffects = {}
  /\ fetches = 0
  /\ upsertCalls = 0
  /\ lastUpsert = "none"
  /\ comparedEqual = 0

\* the command server before a request
NoRequest == [id |-> Undefined, method |-> Undefined, params |-> [kind |-> "undefined"]]
NoResult == [called |-> FALSE, success |-> FALSE, error |-> ""]

RpcIdle ==
  /\ rpcRequest = NoRequest
  /\ rpcPc = "idle"
  /\ rpcResult = NoResult
  /\ rpcResponses = << >>
  /\ rpcEffects = {}

Init ==
  /\ HandlerInit
  /\ syncRoute = "limited"
  /\ CRON_SECRET = <<"a", "b">>
  /\ SyncIdle
  /\ RpcIdle

(***************************************************************************)
(* performVectorQuery: the filter predicate of each variant, the price     *)
(* sort, and the call with its early returns and its catch.                *)
(***************************************************************************)
\* a filter of performVectorQuery; Undefined marks a member that is not given
Filter(productType, tags, vendor) ==
  [productType |-> productType, tags |-> tags, vendor |-> vendor]

\* lenient type match of the stateless variant: type, tags or title contain
\* the requested type or one of its cached synonyms
typeMatchStateless(m, filter) ==
  LET productTypeLower == toLowerCase(filter.productType)
      metadataProductType == normalizeType(Coalesce(m.productType, << >>))
      metadataTags == toLowerCase(Coalesce(m.tags, << >>))
      metadataTitle == toLowerCase(m.title)
      synonymsForType == Lookup(keywordMappings.synonyms, productTypeLower, << >>)
  IN  \/ includes(metadataProductType, productTypeLower)
      \/ includes(metadataTags, productTypeLower)
      \/ includes(metadataTitle, productTypeLower)
      \/ \E i \in 1..Len(synonymsForType) :
           \/ includes(metadataProductType, synonymsForType[i])
           \/ includes(metadataTags, synonymsForType[i])
           \/ includes(metadataTitle, synonymsForType[i])

\* type match of the history variant: the normalized type alone
typeMatchHistory(m, filter) ==
  includes(normalizeType(Coalesce(m.productType, << >>)), toLowerCase(filter.productType))

\* tag match of the stateless variant: some word of the filter is in the tags
\* or in the title
tagMatch(m, filter) ==
  LET tagWords == split(toLowerCase(filter.tags), " ")
      metadataTags == toLowerCase(Coalesce(m.tags, << >>))
      metadataTitle == toLowerCase(m.title)
  IN  \E i \in 1..Len(tagWords) :
        includes(metadataTags, tagWords[i]) \/ includes(metadataTitle, tagWords[i])

vendorMatch(m, filter) ==
  toLowerCase(Coalesce(m.vendor, << >>)) = toLowerCase(filter.vendor)

\* a filter that ignores the price ceiling, to compare with
priceIgnored(m) == TRUE

priceMatch(m) == parsePrice(m.price) <= geminiResult.price_filter[1]

\* a filter that ignores the attributes, to compare with
attributesIgnored(m) == TRUE

\* every lower-cased attribute is in the lower-cased tag string
attributeMatch(m) ==
  LET metadataTagsLower == toLowerCase(Coalesce(m.tags, << >>))
      attributes == geminiResult.attributes
  IN  \A i \in 1..Len(attributes) : includes(metadataTagsLower, toLowerCase(attributes[i]))

\* geminiResult.attributes && geminiResult.attributes.length > 0
HasAttributes == Len(geminiResult.attributes) > 0

\* geminiResult.attributes?.includes('under $20')
HasUnder20Attribute ==
  <<"u","n","d","e","r"," ","$","2","0">> \in Range(geminiResult.attributes)

passesStateless(hit, filter) ==
  LET m == Meta(hit)
  IN  /\ isProductVectorMetadata(m)
      /\ Truthy(filter.productType) => typeMatchStateless(m, filter)
      /\ Truthy(filter.tags) => tagMatch(m, filter)
      /\ Truthy(filter.vendor) => vendorMatch(m, filter)
      /\ geminiResult.price_filter # NoCeiling => priceMatch(m)

passesHistory(hit, filter) ==
  LET m == Meta(hit)
  IN  /\ isProductVectorMetadata(m)
      /\ Truthy(filter.productType) => typeMatchHistory(m, filter)
      /\ HasAttributes => attributeMatch(m)
      /\ Truthy(filter.vendor) => vendorMatch(m, filter)
      /\ IF geminiResult.price_filter # NoCeiling THEN priceMatch(m)
         ELSE HasUnder20Attribute => parsePrice(m.price) <= 2000

passesFilter(hit, filter) ==
  IF variant = "stateless" THEN passesStateless(hit, filter) ELSE passesHistory(hit, filter)

\* Array.prototype.sort with the comparator priceA - priceB (stable)
RECURSIVE sortByPrice(_)
sortByPrice(list) ==
  IF Len(list) <= 1 THEN list
  ELSE LET front == sortByPrice(SubSeq(list, 1, Len(list) - 1))
           last == list[Len(list)]
           key == parsePrice(Meta(last).price)
           n == Cardinality({i \in 1..Len(front) : parsePrice(Meta(front[i]).price) <= key})
       IN  SubSeq(front, 1, n) \o <<last>> \o SubSeq(front, n + 1, Len(front))

\* the results without the filter step, to compare with
unfilteredResults(results, filter) ==
  IF geminiResult.sort_by_price THEN sortByPrice(results) ELSE results

\* results.filter(...) and, when sort_by_price, .sort(...)
filteredResults(results, filter) ==
  LET kept == SelectSeq(results, LAMBDA hit : passesFilter(hit, filter))
  IN  IF geminiResult.sort_by_price THEN sortByPrice(kept) ELSE kept

\* performVectorQuery reaches vectorIndex.query
queryIssued(searchText) ==
  vectorIndex /\ Truthy(searchText) /\ Len(trim(searchText)) > 0

\* the outcomes to consider for one call of performVectorQuery
CallOutcomes(searchText) ==
  IF queryIssued(searchText)
    THEN EngineOutcomes(topK, /\ geminiResult.sort_by_price
                              /\ Len(geminiResult.product_types) = MaxTypes
                              /\ geminiResult.price_filter = NoCeiling
                              /\ Len(geminiResult.search_keywords) > 0)
  ELSE {[throws |-> FALSE, results |-> << >>]}

\* the list performVectorQuery returns (<< >> stands for null: the source
\* never returns an empty list)
performVectorQuery(searchText, filter, outcome) ==
  IF ~queryIssued(searchText) THEN << >>
  ELSE IF outcome.throws THEN << >>
  ELSE filteredResults(outcome.results, filter)

\* searchNote after a call: the catch of performVectorQuery sets it
noteAfterCall(searchText, outcome) ==
  IF queryIssued(searchText) /\ outcome.throws THEN IssueNote ELSE searchNote

\* the record of what the handler did: "search" and the name of the stage
\* when vectorIndex.query was called, "searchReturned" when such a call
\* returned instead of throwing
effectsAfterCall(stage, searchText, outcome) ==
  IF queryIssued(searchText)
    THEN effects \cup {"search", stage}
           \cup (IF outcome.throws THEN {} ELSE {"searchReturned"})
    ELSE effects

someAboveThreshold(matches) ==
  \E i \in 1..Len(matches) : matches[i].score >= SIMILARITY_THRESHOLD

(***************************************************************************)
(* buildDynamicMappings, started when the module is loaded.  It returns at *)
(* once without a search client; otherwise its scan completes at some      *)
(* later time, possibly while a request is being handled.  The scan       *)
(* throws, returns nothing, or returns the catalog.                        *)
(***************************************************************************)
ScanOutcomes ==
  {[throws |-> TRUE, results |-> << >>],
   [throws |-> FALSE, results |-> << >>],
   [throws |-> FALSE, results |-> CatalogScan]}

\* keywordMappings after the scan: assigned only when the scan returned
\* records; the catch and the early return leave it as it is
mappingsAfterScan(scan) ==
  IF scan.throws \/ Len(scan.results) = 0 THEN keywordMappings
  ELSE builtMappings(scan.results)

BuildDynamicMappings ==
  /\ vectorIndex
  /\ keywordMappings = EmptyMappings
  /\ \E scan \in ScanOutcomes : keywordMappings' = mappingsAfterScan(scan)
  /\ UNCHANGED <<deployVars, sessionVars, store, pc, query, trimmedQuery, history, geminiResult,
                 searchVars, resultVars, response, effects>>

(***************************************************************************)
(* The POST handler.                                                       *)
(***************************************************************************)
\* !query || typeof query !== 'string' || query.trim().length === 0
\* the validation without its test of the trimmed length, to compare with
invalidQueryUntrimmed(q) == ~Truthy(q)

invalidQuery(q) == ~Truthy(q) \/ Len(trim(q)) = 0

\* the response of the top-level catch
catchResponse(errorMessage) ==
  [status |-> 500,
   body |-> [ai_understanding |-> <<"An error occurred.">>,
             advice |-> ErrorAdvicePrefix
                          \o SubSeq(errorMessage, 1, Min(100, Len(errorMessage)))
                          \o <<")">>]
            @@ (IF variant = "history" THEN [history |-> << >>] ELSE << >>)]

\* history.filter(...).map(...) throws when history is no array
HistoryError == <<"history.filter is not a function">>

\* the handler goes on to the model call, or ends in the catch when the
\* history is no array
ContinueWithHistory(h) ==
  IF h.kind = "other"
    THEN /\ pc' = "done"
         /\ response' = catchResponse(HistoryError)
    ELSE /\ pc' = "intent"
         /\ response' = response

\* const { query, history = [] } = body
clientHistory(b) ==
  [kind |-> IF b.history.kind = "other" THEN "other" ELSE "array",
   turns |-> b.history.turns]

ReceiveRequest ==
  /\ pc = "idle"
  /\ \E b \in Bodies :
       IF ~b.parses
         THEN /\ pc' = "done"
              /\ response' = catchResponse(<<"Unexpected end of JSON input">>)
              /\ UNCHANGED <<query, trimmedQuery, history, effects>>
       ELSE IF invalidQuery(b.query)
         THEN /\ pc' = "done"
              /\ query' = b.query
              /\ response' = [status |-> 400, body |-> [error |-> InvalidQueryError]]
              /\ UNCHANGED <<trimmedQuery, history, effects>>
       ELSE /\ query' = b.query
            /\ trimmedQuery' = trim(b.query)
            /\ IF variant = "stateless"
                 \* the history is only mapped for the model call
                 THEN /\ history' = history
                      /\ effects' = effects
                      /\ ContinueWithHistory(clientHistory(b))
                 ELSE /\ history' = clientHistory(b)
                      /\ IF redis
                           \* "clientTurns" records that the body brought turns
                           \* to a request that reads the store
                           THEN /\ pc' = "history"
                                /\ response' = response
                                /\ effects' = effects \cup
                                     (IF Len(history'.turns) > 0
                                        THEN {"clientTurns"} ELSE {})
                           ELSE /\ effects' = effects
                                /\ ContinueWithHistory(history')
  /\ UNCHANGED <<deployVars, sessionVars, store, keywordMappings, geminiResult,
                 searchVars, resultVars>>

\* the stored turns put after the client's, to compare with
historyMerged(throws) ==
  IF ~throws /\ store.kind = "array"
    THEN [kind |-> "array", turns |-> history.turns \o store.turns]
  ELSE history

\* the stored list taken even when the read threw, to compare with
historyDespiteThrow(throws) ==
  IF store.kind = "array" THEN [kind |-> "array", turns |-> store.turns]
  ELSE history

\* the history after redis.get: the stored list replaces the client's when
\* the stored value is the JSON of an array
historyAfterRead(throws) ==
  IF ~throws /\ store.kind = "array" THEN [kind |-> "array", turns |-> store.turns]
  ELSE history

\* redis.get returns, or throws; the throw is considered for the request
\* that comes with every client history
ReadThrows == IF query = CheapestQuery THEN BOOLEAN ELSE {FALSE}

\* "storeRead" records the call of redis.get, "storeReadThrew" that it threw
LoadHistory ==
  /\ pc = "history"
  /\ \E throws \in ReadThrows :
       /\ effects' = effects \cup {"storeRead"}
                        \cup (IF throws THEN {"storeReadThrew"} ELSE {})
       /\ history' = historyAfterRead(throws)
       /\ ContinueWithHistory(history')
  /\ UNCHANGED <<deployVars, sessionVars, store, keywordMappings, query, trimmedQuery,
                 geminiResult, searchVars, resultVars>>

\* the rule for 'top 4 cheapest' tried before the product types, to
\* compare with
deriveCheapestFirst(parsed) ==
  IF includes(toLowerCase(trimmedQuery),
              <<"t","o","p"," ","4"," ","c","h","e","a","p","e","s","t">>)
    THEN [parsed EXCEPT !.requested_product_count = 4]
  ELSE IF Len(parsed.product_types) > 0
    THEN [parsed EXCEPT !.requested_product_count = Len(parsed.product_types)]
  ELSE parsed

\* the adjustment of requested_product_count and product_types after a
\* successful parse
deriveIntent(parsed) ==
  LET q == toLowerCase(trimmedQuery)
      comboTypes ==
        IF Len(keywordMappings.defaultComboTypes) > 0
          THEN keywordMappings.defaultComboTypes
          ELSE << <<"c","l","e","a","n","s","e","r">>, <<"m","o","i","s","t","u","r","i","z","e","r">>, <<"t","r","e","a","t","m","e","n","t">> >>
  IN  IF Len(parsed.product_types) > 0
        THEN [parsed EXCEPT !.requested_product_count = Len(parsed.product_types)]
      ELSE IF includes(q, <<"s","e","t">>) \/ includes(q, <<"c","o","m","b","o">>)
        THEN [parsed EXCEPT !.product_types = comboTypes,
                            !.requested_product_count = Len(comboTypes)]
      ELSE IF includes(q, <<"t","o","p"," ","4"," ","c","h","e","a","p","e","s","t">>)
        THEN [parsed EXCEPT !.requested_product_count = 4]
      ELSE IF includes(q, <<"l","i","s","t">>)
        THEN [parsed EXCEPT !.requested_product_count =
                              Min(IF @ = 0 THEN 10 ELSE @, 10)]
      ELSE parsed

\* the answers considered for a query: every family for the plain query;
\* the list family for the query that asks for a list; for the two other
\* queries that a derivation rule looks for, the matching family without
\* ceiling and with at most one type
ParsedIntents(q) ==
  IF q = trim(PlainQuery)
    THEN MatchingIntents \cup TextIntents \cup VendorIntents \cup UntypedIntents
           \cup BlankKeywordIntents
           \cup (IF variant = "history" THEN AttributeIntents ELSE {})
  ELSE IF q = trim(ListQuery)
    THEN ListIntents
    ELSE {p \in MatchingIntents :
            /\ p.price_filter = NoCeiling
            /\ p.requested_product_count = 2
            /\ Len(p.search_keywords) > 0
            /\ Len(p.product_types) <= 1}

\* what the model call can do: throw, answer text that is no JSON, answer
\* JSON of the wrong shape, or answer an intent
ModelOutcomes ==
  {[kind |-> k, parsed |-> DefaultIntent] : k \in {"throws", "garbage", "wrongShape"}}
    \cup {[kind |-> "ok", parsed |-> p] : p \in ParsedIntents(trimmedQuery)}

\* the derivation applied whatever the call did, to compare with
intentDerivedAlways(out) == deriveIntent(out.parsed)

\* geminiResult after the model call: assigned only inside the type checks
intentAfterCall(out) ==
  IF out.kind = "ok" THEN deriveIntent(out.parsed) ELSE DefaultIntent

\* the record of the stage: "intent" when it was gone through, "model" when
\* generateContent was called, "modelFailed" when it threw or its text was
\* no JSON
effectsAfterModel(out) ==
  effects \cup {"intent", "model"}
    \cup (IF out.kind \in {"throws", "garbage"} THEN {"modelFailed"} ELSE {})

ExtractIntent ==
  /\ pc = "intent"
  /\ IF geminiModel
       THEN \E out \in ModelOutcomes :
              /\ effects' = effectsAfterModel(out)
              /\ geminiResult' = intentAfterCall(out)
       ELSE /\ effects' = effects \cup {"intent"}
            /\ geminiResult' = DefaultIntent
  /\ pc' = IF Len(geminiResult'.product_types) > 0 THEN "types1" ELSE "keywords"
  /\ UNCHANGED <<deployVars, sessionVars, store, keywordMappings, query, trimmedQuery,
                 history, searchVars, resultVars, response>>

(***************************************************************************)
(* Stage 2, multi-type path: for each requested type up to three searches, *)
(* then the results not yet claimed are taken.                             *)
(***************************************************************************)
currentType == geminiResult.product_types[typeIdx]

\* the cached keywords alone, to compare with
cachedKeywordsOnly(productType) ==
  Lookup(keywordMappings.typeToKeywords, toLowerCase(productType), Undefined)

\* keywordMappings.typeToKeywords[type.toLowerCase()] || search_keywords || trimmedQuery
typeSearchText(productType) ==
  OrElse(Lookup(keywordMappings.typeToKeywords, toLowerCase(productType), Undefined),
         OrElse(geminiResult.search_keywords, trimmedQuery))

\* the results without the filter on usedProductIds, to compare with
claimedOrNot(results) == results

\* results.filter(r => !usedProductIds.has(String(r.id)))
newResults(results) == SelectSeq(results, LAMBDA r : r.id \notin usedProductIds)

\* every new result taken, to compare with
takenUncut(results) == SelectSeq(results, LAMBDA r : r.id \notin usedProductIds)

\* newResults.slice(0, sort_by_price ? 4 : 1)
takenResults(results) ==
  LET new == newResults(results)
  IN  SubSeq(new, 1, Min(IF geminiResult.sort_by_price THEN 4 ELSE 1, Len(new)))

\* the end of one iteration of the loop over product_types
FinishType(results) ==
  /\ topMatches' = topMatches \o takenResults(results)
  /\ usedProductIds' = usedProductIds \cup {r.id : r \in Range(newResults(results))}
  /\ slotOfMatch' = slotOfMatch \o [i \in 1..Len(takenResults(results)) |-> typeIdx]
  /\ IF typeIdx < Len(geminiResult.product_types)
       THEN /\ typeIdx' = typeIdx + 1
            /\ pc' = "types1"
            /\ searchStageUsed' = searchStageUsed
       ELSE /\ typeIdx' = typeIdx
            /\ pc' = "fallback"
            /\ searchStageUsed' = "Multi-Type Query"

\* the loop left for the fallback without the next search of the type, to
\* compare with
abandonType(next) ==
  /\ pc' = "fallback"
  /\ UNCHANGED <<typeIdx, usedProductIds, slotOfMatch, topMatches, searchStageUsed>>

RetryType(next) ==
  /\ pc' = next
  /\ UNCHANGED <<typeIdx, usedProductIds, slotOfMatch, topMatches, searchStageUsed>>

\* productType.toLowerCase() throws when the element is no string
TypeError == <<"productType.toLowerCase is not a function">>

TypeSearchStrict ==
  /\ pc = "types1"
  /\ IF currentType = NotAString
       \* the exception leaves the loop for the top-level catch
       THEN /\ pc' = "done"
            /\ response' = catchResponse(TypeError)
            /\ UNCHANGED <<searchVars, effects>>
       ELSE /\ response' = response
            /\ searchKeywords' = typeSearchText(currentType)
            /\ \E outcome \in CallOutcomes(searchKeywords') :
                 /\ effects' = effectsAfterCall("typeSearch", searchKeywords', outcome)
                 /\ LET results == performVectorQuery(searchKeywords',
                                     Filter(currentType, currentType, geminiResult.vendor),
                                     outcome)
                    IN  /\ searchNote' = noteAfterCall(searchKeywords', outcome)
                        /\ IF Len(results) = 0 THEN RetryType("types2")
                           ELSE FinishType(results)
  /\ UNCHANGED <<deployVars, sessionVars, store, keywordMappings, query, trimmedQuery,
                 history, geminiResult, resultVars>>

TypeSearchBroad ==
  /\ pc = "types2"
  /\ \E outcome \in CallOutcomes(searchKeywords) :
       /\ effects' = effectsAfterCall("typeSearch", searchKeywords, outcome)
       /\ LET results == performVectorQuery(searchKeywords,
                           Filter(Undefined, currentType, geminiResult.vendor), outcome)
          IN  /\ searchNote' = noteAfterCall(searchKeywords, outcome)
              /\ IF Len(results) = 0 THEN RetryType("types3") ELSE FinishType(results)
  /\ UNCHANGED <<deployVars, sessionVars, store, keywordMappings, query, trimmedQuery,
                 history, geminiResult, searchKeywords, resultVars, response>>

TypeSearchGeneric ==
  /\ pc = "types3"
  /\ \E outcome \in CallOutcomes(currentType) :
       /\ effects' = effectsAfterCall("typeSearch", currentType, outcome)
       /\ LET results == performVectorQuery(currentType,
                           Filter(Undefined, Undefined, geminiResult.vendor), outcome)
          IN  /\ searchNote' = noteAfterCall(currentType, outcome)
              /\ FinishType(results)
  /\ UNCHANGED <<deployVars, sessionVars, store, keywordMappings, query, trimmedQuery,
                 history, geminiResult, searchKeywords, resultVars, response>>

(***************************************************************************)
(* Stage 2, single-intent path: the keyword search, then the direct query. *)
(***************************************************************************)
vendorOnly == Filter(Undefined, Undefined, geminiResult.vendor)

\* the working set replaced by whatever the search returned, to compare with
replaceAlways(results, stage) ==
  /\ topMatches' = results
  /\ searchStageUsed' = stage

\* a stage that replaces the working set when its search returns results
ReplaceWith(results, stage) ==
  IF Len(results) > 0
    THEN /\ topMatches' = results
         /\ searchStageUsed' = stage
    ELSE UNCHANGED <<topMatches, searchStageUsed>>

\* search_keywords && search_keywords.trim().length > 0
keywordSearchDue ==
  Truthy(geminiResult.search_keywords) /\ Len(trim(geminiResult.search_keywords)) > 0

KeywordSearch ==
  /\ pc = "keywords"
  /\ pc' = "direct"
  /\ IF keywordSearchDue
       THEN \E outcome \in CallOutcomes(geminiResult.search_keywords) :
                 /\ effects' = effectsAfterCall("keywordSearch",
                                               geminiResult.search_keywords, outcome)
                 /\ searchNote' = noteAfterCall(geminiResult.search_keywords, outcome)
                 /\ ReplaceWith(performVectorQuery(geminiResult.search_keywords,
                                                   vendorOnly, outcome), "AI Keywords")
       ELSE UNCHANGED <<effects, searchNote, topMatches, searchStageUsed>>
  /\ UNCHANGED <<deployVars, sessionVars, store, keywordMappings, query, trimmedQuery,
                 history, geminiResult, searchKeywords, typeIdx, usedProductIds, slotOfMatch,
                 resultVars, response>>

\* the direct query nested under the test of the keywords, to compare with
directOnlyAfterKeywords ==
  keywordSearchDue
    /\ (Len(topMatches) < requestedCount \/ ~someAboveThreshold(topMatches))

\* topMatches.length < requestedCount || !topMatches.some(score >= threshold)
directSearchDue == Len(topMatches) < requestedCount \/ ~someAboveThreshold(topMatches)

DirectSearch ==
  /\ pc = "direct"
  /\ pc' = "fallback"
  /\ IF directSearchDue
       THEN \E outcome \in CallOutcomes(trimmedQuery) :
                 /\ effects' = effectsAfterCall("directSearch", trimmedQuery, outcome)
                 /\ searchNote' = noteAfterCall(trimmedQuery, outcome)
                 /\ ReplaceWith(performVectorQuery(trimmedQuery, vendorOnly, outcome),
                                "Direct Query")
       ELSE UNCHANGED <<effects, searchNote, topMatches, searchStageUsed>>
  /\ UNCHANGED <<deployVars, sessionVars, store, keywordMappings, query, trimmedQuery,
                 history, geminiResult, searchKeywords, typeIdx, usedProductIds, slotOfMatch,
                 resultVars, response>>

(***************************************************************************)
(* The universal fallback.                                                 *)
(***************************************************************************)
\* topMatches.length === 0 || !topMatches.some(score >= threshold)
fallbackDue == Len(topMatches) = 0 \/ ~someAboveThreshold(topMatches)

\* product_types.join(' ') || search_keywords || 'beauty products'
fallbackKeywords ==
  OrElse(join(geminiResult.product_types, <<" ">>),
         OrElse(geminiResult.search_keywords, <<"b","e","a","u","t","y"," ","p","r","o","d","u","c","t","s">>))

FallbackSearch ==
  /\ pc = "fallback"
  /\ pc' = "process"
  /\ IF fallbackDue
       THEN \E outcome \in CallOutcomes(fallbackKeywords) :
                 /\ effects' = effectsAfterCall("fallbackSearch", fallbackKeywords, outcome)
                 /\ LET results == performVectorQuery(fallbackKeywords, vendorOnly, outcome)
                    IN  /\ ReplaceWith(results, "Fallback Related Products")
                        /\ searchNote' = IF Len(results) > 0 THEN FallbackNote
                                         ELSE noteAfterCall(fallbackKeywords, outcome)
       ELSE UNCHANGED <<effects, searchNote, topMatches, searchStageUsed>>
  /\ UNCHANGED <<deployVars, sessionVars, store, keywordMappings, query, trimmedQuery,
                 history, geminiResult, searchKeywords, typeIdx, usedProductIds, slotOfMatch,
                 resultVars, response>>

(***************************************************************************)
(* Final selection and the response.                                       *)
(***************************************************************************)
\* the valid matches without the slice to requestedCount, to compare with
validMatchesUncut(matches) ==
  LET valid == SelectSeq(matches, LAMBDA m : isProductVectorMetadata(Meta(m)))
  IN  IF geminiResult.sort_by_price THEN sortByPrice(valid) ELSE valid

\* the valid matches without the final price sort, to compare with
validMatchesUnsorted(matches) ==
  LET valid == SelectSeq(matches, LAMBDA m : isProductVectorMetadata(Meta(m)))
  IN  SubSeq(valid, 1, Min(requestedCount, Len(valid)))

\* topMatches.filter(valid metadata).slice(0, requestedCount), then the price
\* sort when requested
validMatchesOf(matches) ==
  LET valid == SelectSeq(matches, LAMBDA m : isProductVectorMetadata(Meta(m)))
      cut == SubSeq(valid, 1, Min(requestedCount, Len(valid)))
  IN  IF geminiResult.sort_by_price THEN sortByPrice(cut) ELSE cut

\* the score test applied whichever stage supplied the working set, to
\* compare with
acceptedInEveryStage(valid) ==
  IF Len(valid) > 0
    THEN SelectSeq(valid, LAMBDA m : m.score >= SIMILARITY_THRESHOLD)
    ELSE << >>

\* the candidates kept by the score test; none when the fallback stage
\* supplied the working set
acceptedMatches(valid) ==
  IF Len(valid) > 0 /\ searchStageUsed # "Fallback Related Products"
    THEN SelectSeq(valid, LAMBDA m : m.score >= SIMILARITY_THRESHOLD)
    ELSE << >>

\* the selection without the safety net, to compare with
acceptedOnly(valid) == acceptedMatches(valid)

\* the matches the cards are made from: the accepted ones, or every valid
\* one when none was accepted
selectedMatchesOf(valid) ==
  IF Len(acceptedMatches(valid)) > 0 THEN acceptedMatches(valid) ELSE valid

productCard(match, description) ==
  LET productData == Meta(match)
  IN  [title |-> productData.title,
       description |-> description,
       price |-> productData.price,
       image |-> productData.imageUrl,
       landing_page |-> productData.productUrl,
       variantId |-> OrElse(productData.variantId, productData.id)]
      @@ (IF variant = "history"
            THEN [tags |-> OrElse(Coalesce(productData.tags, << >>), << >>)]
            ELSE << >>)

productCardsOf(valid) ==
  LET selected == selectedMatchesOf(valid)
      description ==
        IF Len(acceptedMatches(valid)) > 0 THEN FoundDescription ELSE RelatedDescription
  IN  [i \in 1..Len(selected) |-> productCard(selected[i], description)]

\* the note dropped whenever there is a working set, to compare with
noteDroppedAlways(valid) ==
  IF Len(topMatches) = 0 THEN NoProductsNote ELSE << >>

\* the note without the override for an empty working set, to compare with
noteKeptWhenEmpty(valid) ==
  IF Len(acceptedMatches(valid)) > 0 THEN << >> ELSE searchNote

\* searchNote after the matches are processed
noteAfterProcessing(valid) ==
  IF Len(topMatches) = 0 THEN NoProductsNote
  ELSE IF Len(acceptedMatches(valid)) > 0 THEN << >>
  ELSE searchNote

\* the advice without the separator and the usage text, to compare with
adviceWithoutUsage(note) == geminiResult.advice \o note

\* `${advice}\n\n${usage_instructions || default}${searchNote}`
adviceText(note) ==
  geminiResult.advice \o <<"\n", "\n">>
    \o OrElse(geminiResult.usage_instructions, DefaultUsageInstructions) \o note

\* the two turns pushed onto the history
pushedHistory(advice) ==
  history.turns \o <<Turn("user", trimmedQuery), Turn("bot", advice)>>

\* history.slice(-maxHistory) when history.length > maxHistory: a comparison
\* with NaN is false, and slice(-0) is slice(0), the whole list
truncatedHistory(turns, max) ==
  IF max # NaN /\ Len(turns) > max[1]
    THEN (IF max[1] = 0 THEN turns
          ELSE SubSeq(turns, Len(turns) - max[1] + 1, Len(turns)))
    ELSE turns

\* the response with the cards always given as a list, to compare with
finalResponseAsList(cards, advice) ==
  [status |-> 200,
   body |-> [ai_understanding |-> geminiResult.ai_understanding, advice |-> advice]
            @@ (IF Len(cards) > 0 THEN [complementary_products |-> cards] ELSE << >>)
            @@ (IF variant = "history" THEN [history |-> pushedHistory(advice)]
                ELSE << >>)]

\* finalResponse as serialised: a member that is undefined is left out; the
\* history member is the list the two turns were pushed onto
finalResponse(cards, advice) ==
  [status |-> 200,
   body |-> [ai_understanding |-> geminiResult.ai_understanding, advice |-> advice]
            @@ (IF Len(cards) = 1 THEN [product_card |-> cards[1]] ELSE << >>)
            @@ (IF Len(cards) > 1 THEN [complementary_products |-> cards] ELSE << >>)
            @@ (IF variant = "history" THEN [history |-> pushedHistory(advice)]
                ELSE << >>)]

ProcessMatches ==
  /\ pc = "process"
  /\ validMatches' = (IF Len(topMatches) > 0 THEN validMatchesOf(topMatches) ELSE << >>)
  /\ selectedMatches' = selectedMatchesOf(validMatches')
  /\ finalProductCards' = productCardsOf(validMatches')
  /\ searchNote' = noteAfterProcessing(validMatches')
  /\ response' = finalResponse(finalProductCards', adviceText(searchNote'))
  /\ IF variant = "history"
       THEN \E env \in EnvMaxHistory :
              /\ maxHistory' = maxHistoryOf(env)
              /\ history' = [kind |-> "array",
                             turns |-> truncatedHistory(pushedHistory(adviceText(searchNote')),
                                                        maxHistory')]
       ELSE UNCHANGED <<history, maxHistory>>
  /\ pc' = IF redis THEN "store" ELSE "done"
  /\ UNCHANGED <<deployVars, sessionVars, store, keywordMappings, query, trimmedQuery,
                 geminiResult, searchKeywords, typeIdx, usedProductIds, slotOfMatch, topMatches,
                 searchStageUsed, effects>>

\* redis.set(chat:user123, JSON.stringify(history)); a failure is logged only
StoreHistory ==
  /\ pc = "store"
  /\ pc' = "done"
  /\ effects' = effects \cup {"storeWrite"}
  /\ \E throws \in BOOLEAN :
       store' = IF throws THEN store ELSE [kind |-> "array", turns |-> history.turns]
  /\ UNCHANGED <<deployVars, sessionVars, keywordMappings, query, trimmedQuery, history,
                 geminiResult, searchVars, resultVars, response>>

Next ==
  \/ BuildDynamicMappings
  \/ ReceiveRequest
  \/ LoadHistory
  \/ ExtractIntent
  \/ TypeSearchStrict
  \/ TypeSearchBroad
  \/ TypeSearchGeneric
  \/ KeywordSearch
  \/ DirectSearch
  \/ FallbackSearch
  \/ ProcessMatches
  \/ StoreHistory

Spec == Init /\ [][Next]_vars

(***************************************************************************)
(* Properties of the response.                                             *)
(***************************************************************************)
\* the product cards of the response body, in response order
Cards ==
  IF "product_card" \in DOMAIN response.body
    THEN <<response.body.product_card>>
  ELSE IF "complementary_products" \in DOMAIN response.body
    THEN response.body.complementary_products
  ELSE << >>

\* s ends with suffix
EndsWith(s, suffix) ==
  /\ Len(s) >= Len(suffix)
  /\ SubSeq(s, Len(s) - Len(suffix) + 1, Len(s)) = suffix

\* the body was read and its query is a string that is non-empty after trimming
ValidQueryRead ==
  /\ query \notin {NotRead, Undefined, Null, NotAString}
  /\ Len(trim(query)) > 0

\* the body was read and its query is missing, no string, or blank
InvalidQueryRead ==
  \/ query \in {Undefined, Null, NotAString}
  \/ Len(trim(query)) = 0

\* C1: every response to a request whose query is a non-empty string after
\* trimming carries a non-empty advice, whatever dependencies are absent or
\* throw, the response of the top-level catch (status 500) included.
AdviceNeverEmpty ==
  (ValidQueryRead /\ response.status # 0)
    => /\ "advice" \in DOMAIN response.body
       /\ Len(response.body.advice) > 0

\* a valid query answered by the top-level catch
AdviceOnCatchPath ==
  /\ ValidQueryRead
  /\ response.status = 500
  /\ Len(response.body.advice) > 0

\* C2: a request whose query is missing, not a string, or empty after
\* trimming is answered with status 400 and the body {error}, and nothing of
\* the pipeline ran: no model call, no search, no read or write of the store.
InvalidQueryRejected ==
  InvalidQueryRead
    => /\ pc = "done"
       /\ response.status = 400
       /\ DOMAIN response.body = {"error"}
       /\ effects = {}

\* a blank query rejected where a history store is configured
BlankQueryRejected ==
  /\ query = <<" ">>
  /\ redis
  /\ response.status = 400
  /\ effects = {}

\* C3: when every call of the index's query threw, the handler answers with
\* status 200, without product_card and without complementary_products, and
\* the advice ends with the note that no specific products were found.
AllSearchesThrown ==
  (pc \in {"store", "done"} /\ "search" \in effects /\ "searchReturned" \notin effects)
    => /\ response.status = 200
       /\ Cards = << >>
       /\ EndsWith(response.body.advice, NoProductsNote)

\* a multi-type request all of whose searches threw
MultiTypeAllThrown ==
  /\ pc \in {"store", "done"}
  /\ Len(geminiResult.product_types) > 1
  /\ "search" \in effects
  /\ "searchReturned" \notin effects
  /\ response.status = 200
  /\ Cards = << >>

\* C4: when the valid candidates cut to requestedCount are not empty, the
\* response has at least one card, even if every score is below the
\* threshold; the response has no card only when that cut list is empty.
SafetyNet ==
  response.status = 200 => (Len(validMatches) > 0 => Len(Cards) >= 1)

\* cards made of candidates that all score below the threshold, outside the
\* fallback stage
CardsBelowThreshold ==
  /\ response.status = 200
  /\ searchStageUsed \notin {"None", "Fallback Related Products"}
  /\ Len(validMatches) > 0
  /\ \A i \in 1..Len(validMatches) : validMatches[i].score < SIMILARITY_THRESHOLD
  /\ Len(Cards) >= 1

\* C5: with product_types of length N >= 1, the response has at most N cards
\* when sort_by_price is false and at most 4N when it is true, whichever
\* stage supplied the cards.
CardsAtMostPerType ==
  (response.status = 200 /\ Len(geminiResult.product_types) >= 1)
    => Len(Cards) <= (IF geminiResult.sort_by_price THEN 4 ELSE 1)
                       * Len(geminiResult.product_types)

\* the fallback supplied more valid candidates than there are types
FallbackCutToTypes ==
  /\ response.status = 200
  /\ Len(geminiResult.product_types) = 1
  /\ ~geminiResult.sort_by_price
  /\ searchStageUsed = "Fallback Related Products"
  /\ Len(SelectSeq(topMatches, LAMBDA m : isProductVectorMetadata(Meta(m)))) = 2
  /\ Len(Cards) = 1

\* C6: in the multi-type path the concatenated candidate list never holds two
\* entries with the same record id, for any sequence of types (a repeated
\* type included) and either value of sort_by_price.
NoDuplicateCandidates ==
  Len(geminiResult.product_types) > 0
    => \A i, j \in 1..Len(topMatches) :
         i # j => topMatches[i].id # topMatches[j].id

\* the same type requested twice, one candidate taken for each
RepeatedTypeTwoCandidates ==
  /\ pc = "fallback"
  /\ searchStageUsed = "Multi-Type Query"
  /\ Len(geminiResult.product_types) = 2
  /\ geminiResult.product_types[1] = geminiResult.product_types[2]
  /\ Len(topMatches) = 2

\* C7: when the intent has a price ceiling, every card of the response has a
\* parsed price at most that ceiling, whichever stage produced it.
CardsWithinCeiling ==
  (response.status = 200 /\ geminiResult.price_filter # NoCeiling)
    => \A i \in 1..Len(Cards) :
         parsePrice(Cards[i].price) <= geminiResult.price_filter[1]

\* a card from the fallback stage under a ceiling
FallbackCardUnderCeiling ==
  /\ response.status = 200
  /\ geminiResult.price_filter # NoCeiling
  /\ searchStageUsed = "Fallback Related Products"
  /\ Len(Cards) >= 1

CardsSortedByPrice ==
  (response.status = 200 /\ geminiResult.sort_by_price)
    => \A i \in 1..(Len(Cards) - 1) :
         parsePrice(Cards[i].price) <= parsePrice(Cards[i + 1].price)

\* two cards of a two-type request, the one without a number in its price first
UnparsablePriceFirst ==
  /\ response.status = 200
  /\ geminiResult.sort_by_price
  /\ Len(geminiResult.product_types) = 2
  /\ Len(Cards) = 2
  /\ Cards[1].price = <<"N","/","A">>
  /\ parsePrice(Cards[2].price) > 0

\* C10: for a query containing "top 4 cheapest" for which the model answers
\* product_types = ["lipstick"] and sort_by_price = true, the derived intent
\* has a requested count of 4, and at most 4 cards are returned, sorted
\* ascending by parsed price.
TopFourCheapest ==
  (/\ response.status = 200
   /\ includes(toLowerCase(trimmedQuery), <<"t","o","p"," ","4"," ","c","h","e","a","p","e","s","t">>)
   /\ geminiResult.product_types = << <<"l","i","p","s","t","i","c","k">> >>
   /\ geminiResult.sort_by_price)
    => /\ geminiResult.requested_product_count = 4
       /\ Len(Cards) <= 4
       /\ \A i \in 1..(Len(Cards) - 1) :
            parsePrice(Cards[i].price) <= parsePrice(Cards[i + 1].price)

\* the intent names neither keywords nor types
EmptyIntent ==
  /\ Len(geminiResult.search_keywords) = 0
  /\ Len(geminiResult.product_types) = 0

\* C11 as stated: with empty search_keywords and empty product_types no
\* search stage yields candidates and the response carries advice only,
\* neither product_card nor complementary_products.
AdviceOnlyWithoutIntent ==
  (response.status = 200 /\ EmptyIntent)
    => /\ topMatches = << >>
       /\ Cards = << >>

\* C11 amended: with empty search_keywords and empty product_types no
\* keyword query and no per-type query is issued, but the direct query with
\* the raw user text is (when an index is configured); the response has
\* neither product_card nor complementary_products exactly when the searches
\* leave no valid candidate.
EmptyIntentStillSearches ==
  (response.status = 200 /\ EmptyIntent)
    => /\ "keywordSearch" \notin effects
       /\ "typeSearch" \notin effects
       /\ vectorIndex => "directSearch" \in effects
       /\ (Cards = << >>) <=> (validMatches = << >>)

\* the model answered an intent without keywords and types, and the direct
\* query supplied a card
EmptyIntentDirectCard ==
  /\ response.status = 200
  /\ EmptyIntent
  /\ geminiResult # DefaultIntent
  /\ searchStageUsed = "Direct Query"
  /\ "keywordSearch" \notin effects
  /\ Len(Cards) >= 1

\* the filter the handler passes to performVectorQuery in its next search
filterInUse ==
  CASE pc = "types1" -> Filter(currentType, currentType, geminiResult.vendor)
    [] pc = "types2" -> Filter(Undefined, currentType, geminiResult.vendor)
    [] OTHER -> vendorOnly

SearchStages == {"types1", "types2", "types3", "keywords", "direct", "fallback"}

CandidatesAccumulate ==
  [][\A i \in 1..Len(topMatches) :
       \E j \in 1..Len(topMatches') : topMatches'[j].id = topMatches[i].id]_vars

\* C14: when the universal fallback supplied the working set, every candidate
\* with valid metadata among the first requestedCount becomes a card whatever
\* its score, and when there is a card the advice carries the note that the
\* products are related, not exact matches.
FallbackAcceptsAll ==
  (response.status = 200 /\ searchStageUsed = "Fallback Related Products")
    => LET valid == SelectSeq(topMatches, LAMBDA m : isProductVectorMetadata(Meta(m)))
           n == Min(requestedCount, Len(valid))
       IN  /\ Len(Cards) = n
           /\ \A i \in 1..n : \E j \in 1..n :
                /\ Cards[j].title = Meta(valid[i]).title
                /\ Cards[j].description = RelatedDescription
           /\ n >= 1 => includes(response.body.advice, FallbackNote)

\* the fallback supplied a candidate above and one below the threshold, and
\* both are cards
FallbackMixedScores ==
  /\ response.status = 200
  /\ searchStageUsed = "Fallback Related Products"
  /\ Len(Cards) = 2
  /\ \E i, j \in 1..Len(topMatches) :
       /\ topMatches[i].score >= SIMILARITY_THRESHOLD
       /\ topMatches[j].score < SIMILARITY_THRESHOLD

\* C15: in a success response product_card is present exactly when there is
\* one final card and complementary_products exactly when there are two or
\* more; they are never both present and both are absent exactly when there
\* is no card.
CardFieldsByCount ==
  response.status = 200
    => LET single == "product_card" \in DOMAIN response.body
           several == "complementary_products" \in DOMAIN response.body
       IN  /\ single <=> Len(finalProductCards) = 1
           /\ several <=> Len(finalProductCards) >= 2
           /\ ~(single /\ several)
           /\ (~single /\ ~several) <=> Len(finalProductCards) = 0
           /\ single => response.body.product_card = finalProductCards[1]
           /\ several => response.body.complementary_products = finalProductCards

\* a success response with exactly one card
SingleCardResponse ==
  /\ response.status = 200
  /\ Len(finalProductCards) = 1
  /\ "product_card" \in DOMAIN response.body

\* every member of the intent has the type the Intent record declares
WellTyped(intent) ==
  \A i \in 1..Len(intent.product_types) : intent.product_types[i] # NotAString

\* C16: validation of the model's answer is all or nothing over every field
\* of the intent: once the intent is extracted, it is either well typed in
\* every field (the elements of product_types included) or it is the default
\* intent.
IntentAllOrNothing ==
  pc \notin {"idle", "history", "intent"}
    => (WellTyped(geminiResult) \/ geminiResult = DefaultIntent)

\* the intent stage is over and the model client was absent, or the call
\* threw, or its text was no JSON
IntentExtractionFailed ==
  /\ "intent" \in effects
  /\ ~geminiModel \/ "modelFailed" \in effects

\* C17: intent extraction never fails the request: without a model client,
\* or when the call throws or answers text that is no JSON, the default
\* intent is used, the handler goes on to the search stages and the request
\* ends in a success response.
IntentFailureTolerated ==
  IntentExtractionFailed
    => /\ geminiResult = DefaultIntent
       /\ response.status \in {0, 200}
       /\ pc = "done" => response.status = 200

\* the model call failed, a search was made and the request was answered
AnsweredAfterModelFailure ==
  /\ pc = "done"
  /\ "modelFailed" \in effects
  /\ "search" \in effects
  /\ response.status = 200
  /\ Len(Cards) >= 1

\* this step is the first search call of the request that throws: only the
\* catch of performVectorQuery sets the note of the issue
FirstSearchThrow == searchNote # IssueNote /\ searchNote' = IssueNote

\* the stage that follows a stage whose search returned nothing
StageAfterEmpty ==
  CASE pc = "types1" -> {"types2"}
    [] pc = "types2" -> {"types3"}
    [] pc = "types3" -> IF typeIdx < Len(geminiResult.product_types)
                          THEN {"types1"} ELSE {"fallback"}
    [] pc = "keywords" -> {"direct"}
    [] pc = "direct" -> {"fallback"}
    [] pc = "fallback" -> {"process"}
    [] OTHER -> {}

\* C18: a search call that throws is treated as an empty result of its stage
\* only: the working set is left as it was, no response is made, and the
\* handler goes on to the stage that follows an empty result (the second or
\* third search of the type, the direct query, the fallback), whose call is
\* then due as after an empty result; the request still ends with status
\* 200, with product cards when the working set holds a valid candidate.
ThrowFallsThrough ==
  [][/\ FirstSearchThrow
          => /\ pc' \in StageAfterEmpty
             /\ topMatches' = topMatches
             /\ usedProductIds' = usedProductIds
             /\ response' = response
             /\ "search" \in effects'
             /\ pc = "keywords" => directSearchDue'
             /\ pc = "direct" => (fallbackDue' <=> ~someAboveThreshold(topMatches))
     /\ (pc = "process" /\ pc' # "process")
          => /\ response'.status = 200
             /\ (\E i \in 1..Len(topMatches) : isProductVectorMetadata(Meta(topMatches[i])))
                  => Len(Cards') >= 1]_vars

\* the keyword search threw, the direct query returned candidates and the
\* response has cards made of them, with the note of the issue in the advice
CardsAfterKeywordThrow ==
  /\ pc = "done"
  /\ response.status = 200
  /\ "keywordSearch" \in effects
  /\ "fallbackSearch" \notin effects
  /\ searchNote = IssueNote
  /\ searchStageUsed = "Direct Query"
  /\ Len(Cards) >= 1

\* the list a successful redis.set writes holds the last turns of the
\* request's history, the user's query and the bot's advice at its end
EndsWithCurrentTurns(turns) ==
  /\ EndsWith(response.body.history, turns)
  /\ EndsWith(turns, <<Turn("user", trimmedQuery), Turn("bot", response.body.advice)>>)

\* C19: the history written under the session key is never longer than the
\* configured maximum, whatever that maximum is, and it is made of the most
\* recent turns in order, ending with the user's query and the bot's advice.
StoredHistoryCapped ==
  [][store' # store
       => /\ maxHistory # NaN
          /\ Len(store'.turns) <= maxHistory[1]
          /\ EndsWithCurrentTurns(store'.turns)]_vars

\* C20: persistence of the history is best effort: when redis.get throws or
\* the stored value is not the JSON of an array, the handler goes on with
\* the history the client supplied; and the step of redis.set, whether it
\* throws or not, leaves the 200 response that was built as it is.
HistoryBestEffort ==
  [][/\ (pc = "history" /\ pc' # "history"
           /\ ("storeReadThrew" \in effects' \/ store.kind # "array"))
          => /\ history' = history
             /\ history.kind = "array" => (pc' = "intent" /\ response' = response)
     /\ (pc = "store" /\ pc' # "store")
          => /\ pc' = "done"
             /\ response.status = 200
             /\ response' = response]_vars

\* redis.get threw while the store held a list, the client's history was
\* used, redis.set threw as well and the request was answered
AnsweredWithoutStore ==
  /\ pc = "done"
  /\ response.status = 200
  /\ {"storeReadThrew", "storeWrite"} \subseteq effects
  /\ store.kind = "array"
  /\ store.turns # history.turns
  /\ Head(response.body.history) = Turn("bot", <<"h","i">>)

\* C21: a request handled while the keyword mapping cache is empty goes on
\* without error: the searches of a requested type use search_keywords, or
\* the trimmed query when those are empty, as the search text, and the
\* request that reached the searches with a well-typed intent ends with
\* status 200; a scan that throws or returns nothing leaves the cache as it
\* was.
EmptyCacheTolerated ==
  /\ \A scan \in ScanOutcomes :
       (scan.throws \/ Len(scan.results) = 0) => mappingsAfterScan(scan) = keywordMappings
  /\ (keywordMappings = EmptyMappings /\ pc \in {"types2", "types3"})
       => searchKeywords = OrElse(geminiResult.search_keywords, trimmedQuery)
  /\ (keywordMappings = EmptyMappings /\ pc = "done" /\ "intent" \in effects
        /\ WellTyped(geminiResult))
       => response.status = 200

\* a request for a type answered with a card while the cache was empty and
\* the intent had no keywords: the raw query was the search text
CardWithEmptyCache ==
  /\ pc = "done"
  /\ keywordMappings = EmptyMappings
  /\ Len(geminiResult.product_types) > 0
  /\ Len(geminiResult.search_keywords) = 0
  /\ searchKeywords = trimmedQuery
  /\ "typeSearch" \in effects
  /\ response.status = 200
  /\ Len(Cards) >= 1

\* the words the derivation rules look for in the lower-cased query
AsksForCombo ==
  \/ includes(toLowerCase(trimmedQuery), <<"s","e","t">>)
  \/ includes(toLowerCase(trimmedQuery), <<"c","o","m","b","o">>)
AsksForCheapest == includes(toLowerCase(trimmedQuery), <<"t","o","p"," ","4"," ","c","h","e","a","p","e","s","t">>)
AsksForList == includes(toLowerCase(trimmedQuery), <<"l","i","s","t">>)

\* the combo types of the cache, or the triad when the cache has none
ComboTypesNow ==
  IF Len(keywordMappings.defaultComboTypes) > 0 THEN keywordMappings.defaultComboTypes
  ELSE <<<<"c","l","e","a","n","s","e","r">>, <<"m","o","i","s","t","u","r","i","z","e","r">>, <<"t","r","e","a","t","m","e","n","t">>>>

\* C22: after a successful parse the count is derived by strict precedence:
\* with product types, the count is their number; else for a query with
\* 'set' or 'combo' the types become the combo types of the cache (or the
\* triad) and the count their number; else for 'top 4 cheapest' the count
\* is 4; else for 'list' the count is at most 10; and the count the matcher
\* uses is at least 1.
CountDerivedByPrecedence ==
  /\ requestedCount >= 1
  /\ pc = "intent"
       => \A p \in ParsedIntents(trimmedQuery) :
            (Len(p.product_types) = 0 /\ AsksForCombo)
              => deriveIntent(p).product_types = ComboTypesNow
  /\ ("intent" \in effects /\ geminiResult # DefaultIntent)
       => /\ Len(geminiResult.product_types) > 0
               => geminiResult.requested_product_count = Len(geminiResult.product_types)
          /\ AsksForCombo => Len(geminiResult.product_types) > 0
          /\ (Len(geminiResult.product_types) = 0 /\ AsksForCheapest)
               => geminiResult.requested_product_count = 4
          /\ (Len(geminiResult.product_types) = 0 /\ ~AsksForCheapest /\ AsksForList)
               => geminiResult.requested_product_count <= 10

\* a query for a list answered after the count was cut to ten
ListCutToTen ==
  /\ pc = "done"
  /\ response.status = 200
  /\ AsksForList
  /\ geminiResult # DefaultIntent
  /\ geminiResult.requested_product_count = 10
  /\ requestedCount = 10

\* the text the fallback is to search for: the types joined by blanks, else
\* the keywords, else the generic term
FallbackTextExpected ==
  IF Len(geminiResult.product_types) > 0 THEN join(geminiResult.product_types, <<" ">>)
  ELSE IF Len(geminiResult.search_keywords) > 0 THEN geminiResult.search_keywords
  ELSE <<"b","e","a","u","t","y"," ","p","r","o","d","u","c","t","s">>

\* C23: with a search client, the fallback query is issued exactly when the
\* working set left by the multi-type or single-intent path has no candidate
\* at or above the threshold (the empty set included); it is issued at most
\* once in a request, and its text is the types joined by blanks, else the
\* keywords, else 'beauty products'.
FallbackIffNoneAbove ==
  [][(pc = "fallback" /\ pc' = "process" /\ vectorIndex)
       => /\ "fallbackSearch" \notin effects
          /\ "fallbackSearch" \in effects' <=> ~someAboveThreshold(topMatches)
          /\ fallbackKeywords = FallbackTextExpected]_vars

\* C24: in the single-intent path the keyword query is issued only for
\* non-empty search_keywords; with a search client the direct query of the
\* raw text is issued exactly when the keyword results are fewer than
\* requestedCount or none of them is at or above the threshold; the working
\* set changes in the direct stage only to a non-empty direct result, and is
\* retained otherwise.
SingleIntentSearches ==
  [][/\ (pc = "keywords" /\ pc' = "direct" /\ "keywordSearch" \in effects')
          => Len(geminiResult.search_keywords) > 0
     /\ (pc = "direct" /\ pc' = "fallback")
          => /\ "directSearch" \notin effects
             /\ vectorIndex
                  => ("directSearch" \in effects'
                        <=> \/ Len(topMatches) < requestedCount
                            \/ \A i \in 1..Len(topMatches) :
                                 topMatches[i].score < SIMILARITY_THRESHOLD)
             /\ topMatches' # topMatches
                  => /\ Len(topMatches') > 0
                     /\ "directSearch" \in effects'
                     /\ searchStageUsed' = "Direct Query"
             /\ searchStageUsed' # "Direct Query"
                  => UNCHANGED <<topMatches, searchStageUsed>>]_vars

\* the direct query ran and returned nothing that passed: the keyword
\* results are still the working set
KeywordResultsRetained ==
  /\ pc = "fallback"
  /\ {"keywordSearch", "directSearch", "searchReturned"} \subseteq effects
  /\ searchNote # IssueNote
  /\ searchStageUsed = "AI Keywords"
  /\ Len(topMatches) > 0

SkippedOnlyIfClaimed ==
  (pc \in {"types1", "types2", "types3"})
    => usedProductIds \subseteq {topMatches[i].id : i \in 1..Len(topMatches)}

\* C27: at request start the history used for the request is the stored
\* history merged with the client's: when the store holds a list of turns
\* and the body brings turns too, the turns of both are in the history the
\* intent extractor gets.
HistoryMergedAtStart ==
  [][(pc = "history" /\ pc' = "intent" /\ "storeReadThrew" \notin effects'
        /\ store.kind = "array" /\ history.kind = "array")
       => \A turn \in Range(store.turns) \cup Range(history.turns) :
            turn \in Range(history'.turns)]_vars

\* C27 as amended: when the read of the store returns a list of turns, that
\* list alone is the history of the request and the client's turns are
\* dropped; otherwise the client's history is used.
StoredHistoryReplaces ==
  [][(pc = "history" /\ pc' # "history")
       => IF "storeReadThrew" \notin effects' /\ store.kind = "array"
            THEN history'.turns = store.turns
            ELSE history' = history]_vars

\* the store held a list, the body brought a turn, and the request goes on
\* with the stored turns only
ClientTurnsDropped ==
  /\ pc = "intent"
  /\ {"storeRead", "clientTurns"} \subseteq effects
  /\ "storeReadThrew" \notin effects
  /\ store.kind = "array"
  /\ history.turns = store.turns
  /\ Turn("bot", <<"h","i">>) \notin Range(history.turns)

\* the request has read the cache for an earlier type and will read it again
\* for a later one (typeToKeywords and synonyms are read in the first search
\* of every type)
BetweenCacheReads ==
  \/ pc = "types1" /\ typeIdx > 1
  \/ pc \in {"types2", "types3"} /\ typeIdx < Len(geminiResult.product_types)

\* C28: the keyword mapping cache is not mutated mid-request: the reads of
\* one request observe the same version of the cache, so the cache does not
\* change between two reads of a request, even when buildDynamicMappings
\* completes while the request waits for a search.
CacheStableMidRequest ==
  [][BetweenCacheReads => keywordMappings' = keywordMappings]_vars

(***************************************************************************)
(* The history steps of the handler for requests in flight together: the   *)
(* read of the store, the push of the two turns with the cap, the write.   *)
(***************************************************************************)
chatVars ==
  <<variant, geminiModel, vectorIndex, redis, store, keywordMappings,
    pc, query, trimmedQuery, history, geminiResult, searchKeywords, typeIdx, usedProductIds, slotOfMatch,
    topMatches, searchStageUsed, searchNote, validMatches, selectedMatches,
    finalProductCards, maxHistory, response, effects>>
handlerVars == <<chatVars, syncVars, rpcVars>>

\* the body is read: history = clientHistory, here the empty list of a
\* widget that has just been opened; redis.get is called
RequestArrives(r) ==
  /\ inflight[r].pc = "idle"
  /\ \E session \in Sessions :
       inflight' = [inflight EXCEPT ![r].pc = "get", ![r].session = session]
  /\ UNCHANGED <<handlerVars, redisData>>

\* the history after redis.get returned the value stored under the key
historyAfterGet(r, throws) ==
  LET storedHistory == redisData[historyKey(inflight[r].session)]
  IN  IF ~throws /\ storedHistory.kind = "array" THEN storedHistory.turns
      ELSE inflight[r].history

\* redis.get returns or throws; writesSeen notes whose writes had reached
\* the store at that moment
GetReturns(r) ==
  /\ inflight[r].pc = "get"
  /\ \E throws \in BOOLEAN :
       inflight' = [inflight EXCEPT
                      ![r].pc = "answer",
                      ![r].history = historyAfterGet(r, throws),
                      ![r].writesSeen = {q \in Requests : inflight[q].written}]
  /\ UNCHANGED <<handlerVars, redisData>>

\* history.push(user turn); history.push(bot turn)
pushedTurns(r) ==
  inflight[r].history \o <<Turn("user", queryOf(r)), Turn("bot", adviceOf(r))>>

\* the intent and the searches are done: the response refers to the list
\* the turns were pushed onto, the history is cut to the maximum
AnswerBuilt(r) ==
  /\ inflight[r].pc = "answer"
  /\ inflight' = [inflight EXCEPT
                    ![r].pc = "set",
                    ![r].returned = pushedTurns(r),
                    ![r].history = truncatedHistory(pushedTurns(r), <<MAX_CHAT_HISTORY>>)]
  /\ UNCHANGED <<handlerVars, redisData>>

\* redis.set(`chat:${userId}`, JSON.stringify(history)) returns or throws
SetReturns(r) ==
  /\ inflight[r].pc = "set"
  /\ \E throws \in BOOLEAN :
       /\ inflight' = [inflight EXCEPT ![r].pc = "done", ![r].written = ~throws]
       /\ redisData' =
            IF throws THEN redisData
            ELSE [redisData EXCEPT ![historyKey(inflight[r].session)] =
                    [kind |-> "array", turns |-> inflight[r].history]]
  /\ UNCHANGED handlerVars

ConcurrentInit ==
  /\ Init
  /\ variant = "history"
  /\ geminiModel
  /\ vectorIndex
  /\ redis
  /\ store = NoValue

ConcurrentNext ==
  \E r \in Requests :
    \/ RequestArrives(r)
    \/ GetReturns(r)
    \/ AnswerBuilt(r)
    \/ SetReturns(r)

ConcurrentSpec == ConcurrentInit /\ [][ConcurrentNext]_vars

\* the turns of request r
turnsOf(r) == {Turn("user", queryOf(r)), Turn("bot", adviceOf(r))}

\* C29: conversation history is isolated per session: the turns written by
\* a request of one session are never read by, nor returned to, a request of
\* a different session.
SessionsIsolated ==
  \A r, q \in Requests :
    (inflight[r].session # "none" /\ inflight[q].session # "none"
       /\ inflight[r].session # inflight[q].session)
      => /\ turnsOf(q) \cap Range(inflight[r].history) = {}
         /\ turnsOf(q) \cap Range(inflight[r].returned) = {}

\* C30: overlapping requests on the same history key lose no update: when
\* two requests have both read the store before either wrote to it, and both
\* have then written, the stored history holds the user and bot turns of
\* both (four turns, within the cap of MAX_CHAT_HISTORY).
NoLostUpdate ==
  \A r, q \in Requests :
    (/\ r # q
     /\ inflight[r].pc = "done" /\ inflight[q].pc = "done"
     /\ inflight[r].written /\ inflight[q].written
     /\ inflight[r].writesSeen = {} /\ inflight[q].writesSeen = {}
     /\ historyKey(inflight[r].session) = historyKey(inflight[q].session))
      => turnsOf(r) \cup turnsOf(q)
           \subseteq Range(redisData[historyKey(inflight[r].session)].turns)

\* the ids of the matches the cards of the response were made from
cardIds == {selectedMatches[i].id : i \in 1..Len(selectedMatches)}

\* C31: one slot per requested type: in a multi-type request whose working
\* set has a candidate at or above the threshold (the fallback is not
\* triggered), every type that contributed a candidate to the working set
\* has a card in the response, whatever sort_by_price is.
OneSlotPerType ==
  (/\ pc = "done"
   /\ response.status = 200
   /\ "typeSearch" \in effects
   /\ "fallbackSearch" \notin effects
   /\ someAboveThreshold(topMatches)
   /\ Len(slotOfMatch) = Len(topMatches))
    => \A i \in Range(slotOfMatch) :
         \E k \in 1..Len(topMatches) : slotOfMatch[k] = i /\ topMatches[k].id \in cardIds

\* the advice of the response carries the 'related products' disclaimer
Disclaimed ==
  response.body.advice = adviceText(FallbackNote)

\* C32: whenever the response has a card whose candidate scored below the
\* threshold, its advice carries the 'related products' disclaimer.
LowScoreCardsDisclaimed ==
  (pc = "done" /\ response.status = 200)
    => ((\E i \in 1..Len(selectedMatches) :
           selectedMatches[i].score < SIMILARITY_THRESHOLD) => Disclaimed)

\* C32 as amended: the disclaimer is in the advice exactly when the fallback
\* search supplied the cards; the cards from the other stages come without
\* it and are either all at or above the threshold or, when none of the
\* candidates kept by the cut to requestedCount reached it, all below it.
DisclaimerWithFallbackCards ==
  (pc = "done" /\ response.status = 200 /\ Len(selectedMatches) > 0)
    => /\ Disclaimed <=> searchStageUsed = "Fallback Related Products"
       /\ searchStageUsed # "Fallback Related Products"
            => \/ \A i \in 1..Len(selectedMatches) :
                    selectedMatches[i].score >= SIMILARITY_THRESHOLD
               \/ /\ selectedMatches = validMatches
                  /\ \A i \in 1..Len(validMatches) :
                       validMatches[i].score < SIMILARITY_THRESHOLD

\* the fallback query was issued and returned, the working set is still
\* that of the direct query, and a card below the threshold is shown
\* without the disclaimer
LowScoreCardUndisclaimed ==
  /\ pc = "done"
  /\ response.status = 200
  /\ {"directSearch", "fallbackSearch"} \subseteq effects
  /\ searchStageUsed = "Direct Query"
  /\ Len(selectedMatches) > 0
  /\ \A i \in 1..Len(selectedMatches) : selectedMatches[i].score < SIMILARITY_THRESHOLD
  /\ response.body.advice = adviceText(<< >>)

\* C33: the history returned in a success response is the history persisted
\* for the request: the same turns in the same order, ending with the
\* user's query and the bot's advice, and no longer than the maximum.
ReturnedHistoryIsStored ==
  [][(store' # store /\ response.status = 200)
       => /\ response.body.history = store'.turns
          /\ EndsWith(store'.turns,
                      <<Turn("user", trimmedQuery), Turn("bot", response.body.advice)>>)
          /\ maxHistory # NaN
          /\ Len(response.body.history) <= maxHistory[1]]_vars

(***************************************************************************)
(* The catalog synchronisation job: the GET handler of the sync endpoint   *)
(* and upsertBatchWithRetry.  The sizes are scaled down: a record of a     *)
(* batch is TRUE when the index holds an equal record for it.              *)
(***************************************************************************)
\* products asked of shopify for a page
BATCH_SIZE_SHOPIFY_FETCH == 2
\* records compared and written together
BATCH_SIZE_VECTOR_OPS == 2
MAX_RETRIES == 3
\* writes allowed in a run
DAILY_WRITE_LIMIT == 3
\* pages shopify has at most
MaxPages == 3

\* the values of process.env.CRON_SECRET and of the secret parameter
ConfiguredSecrets == {Undefined, << >>, <<"a", "b">>}
SuppliedSecrets == {Null, <<"a", "b">>, <<"a", "c">>, <<"a">>, <<"your-secret">>}

\* const SECRET = process.env.CRON_SECRET || 'your-secret'
SECRET == OrElse(CRON_SECRET, <<"your-secret">>)

\* a page of shopify products
Pages == UNION {[1..n -> BOOLEAN] : n \in 0..BATCH_SIZE_SHOPIFY_FETCH}

\* what fetchAdminShopifyProducts does: it throws, or returns a page and
\* the cursor of the next one
FetchOutcomes ==
  {[throws |-> TRUE, products |-> << >>, endCursor |-> FALSE]}
  \cup {[throws |-> FALSE, products |-> p, endCursor |-> c] :
          p \in Pages, c \in (IF fetches + 1 < MaxPages THEN BOOLEAN ELSE {FALSE})}

\* what index.upsert does: it resolves, or rejects with a message of one
\* of the three classes the job tells apart
UpsertOutcomes == {"ok", "transient", "config", "limit"}

SyncJson(status, body) == [status |-> status, body |-> body]

\* the locals of a run at its start
RunStarts ==
  /\ cursor' = FALSE
  /\ products' = << >>
  /\ productIdx' = 1
  /\ currentBatchPotentialRecords' = << >>
  /\ batchToActuallyUpsert' = << >>
  /\ retryCount' = 0
  /\ lastBatch' = FALSE
  /\ counts' = NoCounts
  /\ fetches' = 0
  /\ upsertCalls' = 0
  /\ lastUpsert' = "none"
  /\ comparedEqual' = 0

\* GET of the endpoint with the write limit, up to the reset of the counter
AuthorizeLimited(s) ==
  IF ~Truthy(CRON_SECRET)
  THEN /\ syncResponse' = SyncJson(500, [error |-> "Server configuration error: Secret not set."])
       /\ syncPc' = "done"
       /\ syncEffects' = {}
       /\ UNCHANGED totalWritesToday
  ELSE IF s # CRON_SECRET
  THEN /\ syncResponse' = SyncJson(401, [error |-> "Unauthorized"])
       /\ syncPc' = "done"
       /\ syncEffects' = {}
       /\ UNCHANGED totalWritesToday
  ELSE IF ~vectorIndex
  THEN /\ syncResponse' = SyncJson(500, [error |-> "Vector index setup failed"])
       /\ syncPc' = "done"
       /\ syncEffects' = {}
       /\ UNCHANGED totalWritesToday
  ELSE /\ syncResponse' = NoResponse
       /\ syncPc' = "fetch"
       /\ syncEffects' = {"reset"}
       /\ totalWritesToday' = 0

\* GET of the endpoint without the write limit, up to its first fetch
AuthorizeSimple(s) ==
  /\ IF s # SECRET
     THEN /\ syncResponse' = SyncJson(401, [error |-> "Unauthorized"])
          /\ syncPc' = "done"
     ELSE /\ syncResponse' = NoResponse
          /\ syncPc' = "simple"
  /\ syncEffects' = {}
  /\ UNCHANGED totalWritesToday

\* a request reaches the endpoint
SyncRequest ==
  /\ syncPc \in {"idle", "done"}
  /\ \E s \in SuppliedSecrets :
       /\ secret' = s
       /\ IF syncRoute = "limited" THEN AuthorizeLimited(s) ELSE AuthorizeSimple(s)
  /\ RunStarts
  /\ UNCHANGED <<chatVars, inflight, redisData, rpcVars, syncRoute, CRON_SECRET>>

\* the endpoint without the write limit fetches the pages and upserts the
\* records in batches; any exception ends it with 500
SimpleSync ==
  /\ syncPc = "simple"
  /\ \E throws \in BOOLEAN, written \in BOOLEAN :
       /\ syncEffects' = syncEffects \cup {"shopifyFetch"}
                           \cup (IF written /\ vectorIndex THEN {"upsert"} ELSE {})
       /\ syncResponse' = IF throws THEN SyncJson(500, [error |-> "Sync failed"])
                          ELSE SyncJson(200, [status |-> "complete"])
  /\ syncPc' = "done"
  /\ UNCHANGED <<chatVars, inflight, redisData, rpcVars, syncRoute, CRON_SECRET, secret,
                 totalWritesToday, cursor, products, productIdx,
                 currentBatchPotentialRecords, batchToActuallyUpsert, retryCount,
                 lastBatch, counts, fetches, upsertCalls, lastUpsert, comparedEqual>>

\* the catch of the whole run
SyncFailed ==
  SyncJson(500, [error |-> "Sync failed due to an unexpected error. Check server logs.",
                 totalWrites |-> totalWritesToday, writeLimit |-> DAILY_WRITE_LIMIT,
                 status |-> "failed"])

\* the head of the do-while loop: the limit check, then the fetch of a page
FetchPage ==
  /\ syncPc = "fetch"
  /\ IF totalWritesToday >= DAILY_WRITE_LIMIT
     THEN /\ syncPc' = "final"
          /\ UNCHANGED <<cursor, products, productIdx, counts, syncResponse, syncEffects, fetches>>
     ELSE \E result \in FetchOutcomes :
            /\ syncEffects' = syncEffects \cup {"shopifyFetch"}
            /\ fetches' = fetches + 1
            /\ IF result.throws
               THEN /\ syncResponse' = SyncFailed
                    /\ syncPc' = "done"
                    /\ UNCHANGED <<cursor, products, productIdx, counts>>
               ELSE /\ cursor' = result.endCursor
                    /\ products' = result.products
                    /\ productIdx' = 1
                    /\ counts' = [counts EXCEPT !.fetchedProducts = @ + Len(result.products)]
                    /\ syncPc' = IF Len(result.products) > 0 THEN "product"
                                 ELSE IF result.endCursor THEN "fetch" ELSE "final"
                    /\ UNCHANGED syncResponse
  /\ UNCHANGED <<chatVars, inflight, redisData, rpcVars, syncRoute, CRON_SECRET, secret,
                 totalWritesToday, currentBatchPotentialRecords, batchToActuallyUpsert,
                 retryCount, lastBatch, upsertCalls, lastUpsert, comparedEqual>>

\* where the run goes on once the batch logic of a product is over: the
\* breaks on the write limit, the next product, the next page
Continue(total) ==
  IF lastBatch
  THEN syncPc' = "summary" /\ UNCHANGED productIdx
  ELSE IF total >= DAILY_WRITE_LIMIT
  THEN syncPc' = "final" /\ UNCHANGED productIdx
  ELSE IF productIdx < Len(products)
  THEN syncPc' = "product" /\ productIdx' = productIdx + 1
  ELSE syncPc' = (IF cursor THEN "fetch" ELSE "final") /\ UNCHANGED productIdx

\* the batch is compared when it is full or the shopify data ends
batchDue(batch) ==
  Len(batch) >= BATCH_SIZE_VECTOR_OPS \/ (~cursor /\ productIdx = Len(products))

\* one product of the page: its record joins the batch
PrepareProduct ==
  /\ syncPc = "product"
  /\ LET batch == Append(currentBatchPotentialRecords, products[productIdx])
     IN  /\ currentBatchPotentialRecords' = batch
         /\ counts' = [counts EXCEPT !.processedProducts = @ + 1]
         /\ IF batchDue(batch)
            THEN syncPc' = "compare" /\ UNCHANGED productIdx
            ELSE Continue(totalWritesToday)
  /\ UNCHANGED <<chatVars, inflight, redisData, rpcVars, syncRoute, CRON_SECRET, secret,
                 totalWritesToday, cursor, products, batchToActuallyUpsert, retryCount,
                 lastBatch, syncResponse, syncEffects, fetches, upsertCalls, lastUpsert, comparedEqual>>

\* the records areRecordsEqual tells from the stored ones; all of them
\* when the stored ones could not be fetched
changedRecords(batch, fetchFailed) ==
  IF fetchFailed THEN batch ELSE SelectSeq(batch, LAMBDA same : ~same)

\* the counters after the comparison of a batch
countsCompared(batch, fetchFailed) ==
  LET toUpsert == Len(changedRecords(batch, fetchFailed))
  IN  [counts EXCEPT
         !.errorCount = @ + (IF fetchFailed THEN Len(batch) ELSE 0),
         !.productsToUpsertCount = @ + toUpsert,
         !.skippedProducts = @ + (Len(batch) - toUpsert)]

\* the counters after a batch was left out because of the write limit
countsDropped(c, n) ==
  [c EXCEPT !.errorCount = @ + n,
            !.skippedProducts = @ - n,
            !.productsToUpsertCount = @ - n]

\* the stored records are fetched, the batch is compared with them; the
\* changed records are upserted, or left out when they pass the limit
CompareBatch ==
  /\ syncPc = "compare"
  /\ \E fetchFailed \in BOOLEAN :
       LET batch == currentBatchPotentialRecords
           toUpsert == changedRecords(batch, fetchFailed)
           compared == countsCompared(batch, fetchFailed)
       IN  /\ syncEffects' = syncEffects \cup {"indexFetch"}
           /\ batchToActuallyUpsert' = toUpsert
           /\ comparedEqual' = comparedEqual + (Len(batch) - Len(toUpsert))
           /\ currentBatchPotentialRecords' = IF lastBatch THEN batch ELSE << >>
           /\ retryCount' = 0
           /\ upsertCalls' = 0
           /\ lastUpsert' = "none"
           /\ IF Len(toUpsert) = 0
              THEN /\ counts' = compared
                   /\ Continue(totalWritesToday)
                   /\ UNCHANGED totalWritesToday
              ELSE IF totalWritesToday + Len(toUpsert) <= DAILY_WRITE_LIMIT
              THEN /\ counts' = compared
                   /\ syncPc' = "upsert"
                   /\ UNCHANGED <<totalWritesToday, productIdx>>
              ELSE /\ counts' = countsDropped(compared, Len(toUpsert))
                   /\ totalWritesToday' =
                        IF lastBatch THEN totalWritesToday ELSE DAILY_WRITE_LIMIT
                   /\ Continue(totalWritesToday')
  /\ UNCHANGED <<chatVars, inflight, redisData, rpcVars, syncRoute, CRON_SECRET, secret,
                 cursor, products, lastBatch, syncResponse, fetches>>

\* a catch that tries again whatever was thrown
retriedInstead(total) ==
  /\ totalWritesToday' = total
  /\ retryCount' = retryCount + 1
  /\ UNCHANGED <<counts, syncPc, productIdx>>

\* the catch around upsertBatchWithRetry in GET
upsertCaught(total) ==
  /\ counts' = [counts EXCEPT !.errorCount = @ + Len(batchToActuallyUpsert)]
  /\ totalWritesToday' = total
  /\ retryCount' = retryCount
  /\ Continue(total)

\* upsertBatchWithRetry(index, batch, retryCount): the limit check, the
\* call of index.upsert, and what the catch makes of a rejection
UpsertAttempt ==
  /\ syncPc = "upsert"
  /\ LET n == Len(batchToActuallyUpsert)
     IN  IF totalWritesToday + n > DAILY_WRITE_LIMIT
         THEN upsertCaught(totalWritesToday) /\ UNCHANGED <<upsertCalls, lastUpsert, syncEffects>>
         ELSE \E outcome \in UpsertOutcomes :
                /\ upsertCalls' = upsertCalls + 1
                /\ lastUpsert' = outcome
                /\ syncEffects' = syncEffects \cup {"upsert"}
                /\ CASE outcome = "ok" ->
                          /\ totalWritesToday' = totalWritesToday + n
                          /\ Continue(totalWritesToday')
                          /\ UNCHANGED <<counts, retryCount>>
                     [] outcome = "config" -> upsertCaught(totalWritesToday)
                     [] outcome = "limit" -> upsertCaught(DAILY_WRITE_LIMIT)
                     [] outcome = "transient" ->
                          IF retryCount >= MAX_RETRIES
                          THEN upsertCaught(totalWritesToday)
                          ELSE /\ retryCount' = retryCount + 1
                               /\ UNCHANGED <<totalWritesToday, counts, syncPc, productIdx>>
  /\ UNCHANGED <<chatVars, inflight, redisData, rpcVars, syncRoute, CRON_SECRET, secret,
                 cursor, products, currentBatchPotentialRecords, batchToActuallyUpsert,
                 lastBatch, syncResponse, fetches, comparedEqual>>

\* after the loop: the records left in the batch are compared if the
\* limit allows it
FinalBatch ==
  /\ syncPc = "final"
  /\ IF Len(currentBatchPotentialRecords) > 0 /\ totalWritesToday < DAILY_WRITE_LIMIT
     THEN syncPc' = "compare" /\ lastBatch' = TRUE
     ELSE syncPc' = "summary" /\ UNCHANGED lastBatch
  /\ UNCHANGED <<chatVars, inflight, redisData, rpcVars, syncRoute, CRON_SECRET, secret,
                 totalWritesToday, cursor, products, productIdx,
                 currentBatchPotentialRecords, batchToActuallyUpsert, retryCount, counts,
                 syncResponse, syncEffects, fetches, upsertCalls, lastUpsert, comparedEqual>>

\* a summary that says complete whatever the counter
summaryAlwaysComplete ==
  SyncJson(200,
    [status |-> "complete",
     shopifyFetched |-> counts.fetchedProducts,
     processed |-> counts.processedProducts,
     skippedUnchanged |-> counts.skippedProducts,
     queuedForUpsert |-> counts.productsToUpsertCount,
     upserted |-> totalWritesToday,
     errors |-> counts.errorCount,
     writeLimit |-> DAILY_WRITE_LIMIT])

\* the summary of the run
SyncSummary ==
  SyncJson(200,
    [status |-> IF totalWritesToday >= DAILY_WRITE_LIMIT THEN "write_limit_reached"
                ELSE "complete",
     shopifyFetched |-> counts.fetchedProducts,
     processed |-> counts.processedProducts,
     skippedUnchanged |-> counts.skippedProducts,
     queuedForUpsert |-> counts.productsToUpsertCount,
     upserted |-> totalWritesToday,
     errors |-> counts.errorCount,
     writeLimit |-> DAILY_WRITE_LIMIT])

Summarize ==
  /\ syncPc = "summary"
  /\ syncResponse' = SyncSummary
  /\ syncPc' = "done"
  /\ UNCHANGED <<chatVars, inflight, redisData, rpcVars, syncRoute, CRON_SECRET, secret,
                 totalWritesToday, cursor, products, productIdx,
                 currentBatchPotentialRecords, batchToActuallyUpsert, retryCount,
                 lastBatch, counts, syncEffects, fetches, upsertCalls, lastUpsert, comparedEqual>>

SyncInit ==
  /\ HandlerInit
  /\ variant = "stateless"
  /\ geminiModel
  /\ syncRoute \in {"limited", "simple"}
  /\ CRON_SECRET \in ConfiguredSecrets
  /\ SyncIdle
  /\ RpcIdle

SyncNext ==
  \/ SyncRequest
  \/ SimpleSync
  \/ FetchPage
  \/ PrepareProduct
  \/ CompareBatch
  \/ UpsertAttempt
  \/ FinalBatch
  \/ Summarize

SyncSpec == SyncInit /\ [][SyncNext]_vars

\* the promise of index.upsert settles and the timer of the retry delay
\* fires: an attempt that can be made is made
UpsertFairSpec == SyncSpec /\ WF_vars(UpsertAttempt)

(***************************************************************************)
(* Claims about the catalog synchronisation job.                           *)
(***************************************************************************)
\* a run of the endpoint with the write limit that passed the authorization
inRun == syncRoute = "limited" /\ "reset" \in syncEffects

\* C34: in a run of the job the write counter never exceeds
\* DAILY_WRITE_LIMIT, index.upsert is never called with a batch that would
\* push the counter past the limit, no shopify page is fetched once the
\* counter has reached the limit, and a run that ends with the counter at
\* the limit reports the status write_limit_reached
WriteLimitRespected ==
  [][ /\ totalWritesToday' <= DAILY_WRITE_LIMIT
      /\ upsertCalls' > upsertCalls =>
           totalWritesToday + Len(batchToActuallyUpsert) <= DAILY_WRITE_LIMIT
      /\ (inRun /\ syncPc # "done" /\ totalWritesToday >= DAILY_WRITE_LIMIT) =>
           fetches' = fetches
      /\ (inRun /\ syncPc # "done" /\ syncPc' = "done"
            /\ totalWritesToday' >= DAILY_WRITE_LIMIT) =>
           /\ syncResponse'.status = 200
           /\ syncResponse'.body.status = "write_limit_reached" ]_vars

\* a run stopped at the limit while shopify had a next page
StoppedAtLimit ==
  /\ inRun
  /\ syncPc = "done"
  /\ cursor
  /\ "upsert" \in syncEffects
  /\ totalWritesToday = DAILY_WRITE_LIMIT
  /\ syncResponse.status = 200
  /\ syncResponse.body.status = "write_limit_reached"

summaryReturned == inRun /\ syncPc = "done" /\ syncResponse.status = 200

\* C36: in every summary of the job skippedUnchanged and queuedForUpsert
\* are not negative, and skippedUnchanged is the number of processed
\* records that compared equal to their stored version, also when a batch
\* was left out because of the write limit
SummaryCountsSound ==
  summaryReturned =>
    /\ syncResponse.body.skippedUnchanged >= 0
    /\ syncResponse.body.queuedForUpsert >= 0
    /\ syncResponse.body.skippedUnchanged = comparedEqual

\* C37: the synchronisation endpoint fetches nothing from shopify or the
\* index, upserts nothing and does not reset the write counter unless the
\* secret of the request equals the configured CRON_SECRET: it answers 500
\* when CRON_SECRET is not configured, whatever the secret, and 401 when the
\* secret differs
SyncNeedsSecret ==
  syncPc # "idle" =>
    /\ syncEffects # {} => (Truthy(CRON_SECRET) /\ secret = CRON_SECRET)
    /\ ~Truthy(CRON_SECRET) => syncResponse.status = 500
    /\ (Truthy(CRON_SECRET) /\ secret # CRON_SECRET) => syncResponse.status = 401

(***************************************************************************)
(* The command server: JsonRpcHandler.handle and CommandProcessor.process. *)
(* A params value is an object with or without a secret member, or one of  *)
(* the values that are no object; timestamps are left out.                 *)
(***************************************************************************)
\* config.security
cronSecret == OrElse(CRON_SECRET, << >>)
requireSecretForSync == TRUE

\* the requests considered
RpcIds == {Undefined, Null, <<"1">>}
RpcMethods ==
  {Undefined, NotAString, <<"initialize">>, <<"ping">>, <<"get-products">>,
   <<"sync-products">>, <<"delete-products">>}
RpcSecrets == {Undefined, NotAString, << >>, <<"a", "b">>, <<"a", "c">>, <<"a">>}
RpcParams ==
  {[kind |-> k, secret |-> Undefined] : k \in {"undefined", "null", "string"}}
  \cup {[kind |-> "object", secret |-> s] : s \in RpcSecrets}
RpcRequests == [id : RpcIds, method : RpcMethods, params : RpcParams]

\* const { id, method, params = {} } = request
paramsOf(request) ==
  IF request.params.kind = "undefined" THEN [kind |-> "object", secret |-> Undefined]
  ELSE request.params

\* a supported list that lets every method through
everyMethod == RpcMethods

supportedMethods ==
  {<<"get-products">>, <<"sync-products">>, <<"ping">>, <<"initialize">>}

successResponse(id, result) == [jsonrpc |-> "2.0", id |-> id, result |-> result]
errorResponse(id, code, message) ==
  [jsonrpc |-> "2.0", id |-> id, error |-> [code |-> code, message |-> message]]

\* a comparison that takes a secret for right when it is the start of the
\* configured one
prefixEqual(a, b) ==
  IF Len(a) > Len(b) THEN "false"
  ELSE IF a = SubSeq(b, 1, Len(a)) THEN "true" ELSE "false"

\* crypto.timingSafeEqual(Buffer.from(a), Buffer.from(b)): Buffer.from
\* throws for a number, timingSafeEqual for buffers of different lengths
timingSafeEqual(a, b) ==
  IF a = NotAString THEN "TypeError"
  ELSE IF Len(a) # Len(b) THEN "RangeError"
  ELSE IF a = b THEN "true" ELSE "false"

\* secret || ''
secretOrEmpty(s) == IF s = NotAString THEN s ELSE OrElse(s, << >>)

validateCronSecret(s) ==
  IF ~Truthy(cronSecret) THEN TRUE
  ELSE timingSafeEqual(secretOrEmpty(s), cronSecret) = "true"

succeeded == [called |-> TRUE, success |-> TRUE, error |-> ""]
failed(message) == [called |-> TRUE, success |-> FALSE, error |-> message]

\* process(command, params) up to its first await: the result it returns
\* at once, or the call of the shopify service it waits for
processStart(command, params) ==
  CASE command = <<"get-products">> -> [awaits |-> TRUE, result |-> NoResult]
    [] command = <<"sync-products">> ->
         IF requireSecretForSync /\ ~validateCronSecret(params.secret)
         THEN [awaits |-> FALSE, result |-> failed("Invalid or missing sync secret")]
         ELSE [awaits |-> TRUE, result |-> NoResult]
    [] command = <<"ping">> -> [awaits |-> FALSE, result |-> succeeded]
    [] OTHER -> [awaits |-> FALSE, result |-> failed("Unknown command")]

\* what handle makes of the result of the processor
responseFor(id, result) ==
  IF result.success THEN successResponse(id, "data")
  ELSE errorResponse(id, -32000, result.error)

\* handle(request) up to its first await
RpcHandle ==
  /\ rpcPc \in {"idle", "done"}
  /\ \E request \in RpcRequests :
       LET id == request.id
           method == request.method
           params == paramsOf(request)
           started == processStart(method, params)
       IN  /\ rpcRequest' = request
           /\ IF id = Undefined
              THEN /\ rpcResponses' = <<errorResponse(Null, -32600, "ID is required")>>
                   /\ rpcPc' = "done"
                   /\ rpcResult' = NoResult
                   /\ rpcEffects' = {}
              ELSE IF ~IsString(method)
              THEN /\ rpcResponses' = <<errorResponse(id, -32600, "Method must be a string")>>
                   /\ rpcPc' = "done"
                   /\ rpcResult' = NoResult
                   /\ rpcEffects' = {}
              ELSE IF params.kind # "object"
              THEN /\ rpcResponses' = <<errorResponse(id, -32600, "Params must be an object")>>
                   /\ rpcPc' = "done"
                   /\ rpcResult' = NoResult
                   /\ rpcEffects' = {}
              ELSE IF method = <<"initialize">>
              THEN /\ rpcResponses' = <<successResponse(id, "capabilities")>>
                   /\ rpcPc' = "done"
                   /\ rpcResult' = NoResult
                   /\ rpcEffects' = {}
              ELSE IF method \notin supportedMethods
              THEN /\ rpcResponses' = <<errorResponse(id, -32601, "Method not supported")>>
                   /\ rpcPc' = "done"
                   /\ rpcResult' = NoResult
                   /\ rpcEffects' = {}
              ELSE IF started.awaits
              THEN /\ rpcResponses' = << >>
                   /\ rpcPc' = "shopify"
                   /\ rpcResult' = NoResult
                   /\ rpcEffects' = {"process", "shopify"}
              ELSE /\ rpcResponses' = <<responseFor(id, started.result)>>
                   /\ rpcPc' = "done"
                   /\ rpcResult' = started.result
                   /\ rpcEffects' = {"process"}
  /\ UNCHANGED <<chatVars, inflight, redisData, syncVars>>

\* the call of the shopify service returns or throws; the catch of process
\* makes a failure of what was thrown
ShopifyReturns ==
  /\ rpcPc = "shopify"
  /\ \E throws \in BOOLEAN :
       LET result == IF throws THEN failed("Failed to fetch products") ELSE succeeded
       IN  /\ rpcResult' = result
           /\ rpcResponses' = Append(rpcResponses, responseFor(rpcRequest.id, result))
  /\ rpcPc' = "done"
  /\ UNCHANGED <<chatVars, inflight, redisData, syncVars, rpcRequest, rpcEffects>>

RpcInit ==
  /\ HandlerInit
  /\ variant = "stateless"
  /\ geminiModel
  /\ vectorIndex
  /\ syncRoute = "limited"
  /\ CRON_SECRET \in ConfiguredSecrets
  /\ SyncIdle
  /\ RpcIdle

RpcNext == RpcHandle \/ ShopifyReturns

RpcSpec == RpcInit /\ [][RpcNext]_vars

(***************************************************************************)
(* Claims about the command server.                                        *)
(***************************************************************************)
\* the processor was given a sync-products command
syncCommanded == rpcRequest.method = <<"sync-products">> /\ "process" \in rpcEffects

\* the result of a refused sync-products command: a failure, no shopify call
syncRefused ==
  /\ "shopify" \notin rpcEffects
  /\ rpcResult = failed("Invalid or missing sync secret")

\* C38 as stated: the sync-products command invokes the shopify sync only
\* if params.secret equals the configured cron secret; a missing secret, a
\* wrong one or one of another length gives the failure result 'Invalid or
\* missing sync secret' without a shopify call, in every configuration of
\* CRON_SECRET
SyncCommandNeedsSecret ==
  syncCommanded =>
    IF paramsOf(rpcRequest).secret = cronSecret
    THEN "shopify" \in rpcEffects
    ELSE syncRefused

\* C38: with a cron secret configured the sync-products command invokes
\* the shopify sync if and only if params.secret equals it, and a missing
\* secret, a wrong one or one of another length gives the failure result
\* 'Invalid or missing sync secret' without a shopify call; with no cron
\* secret configured every sync-products command invokes the sync
SyncCommandGuarded ==
  syncCommanded =>
    IF ~Truthy(cronSecret) \/ paramsOf(rpcRequest).secret = cronSecret
    THEN "shopify" \in rpcEffects
    ELSE syncRefused

\* a secret that is the start of the configured one was refused
ShortSecretRefused ==
  /\ syncCommanded
  /\ Truthy(cronSecret)
  /\ paramsOf(rpcRequest).secret = <<"a">>
  /\ syncRefused
  /\ rpcPc = "done"

\* the response carries an error of the given code and no result
isError(resp, code) ==
  /\ "error" \in DOMAIN resp
  /\ "result" \notin DOMAIN resp
  /\ resp.error.code = code

\* C39: handle returns one response for a request, with either a result or
\* an error: -32600 under the id null for a request without id, -32600 for
\* a method that is no string or params that are no object, -32601 for a
\* method outside the supported list, for which the processor is not
\* called, -32000 for a command that fails or throws, and otherwise a
\* result under the id of the request
HandleAnswersOnce ==
  /\ Len(rpcResponses) <= 1
  /\ rpcPc = "done" =>
       /\ Len(rpcResponses) = 1
       /\ LET resp == rpcResponses[1]
              id == rpcRequest.id
              method == rpcRequest.method
          IN  IF id = Undefined
              THEN isError(resp, -32600) /\ resp.id = Null
              ELSE /\ resp.id = id
                   /\ IF ~IsString(method) \/ paramsOf(rpcRequest).kind # "object"
                      THEN isError(resp, -32600)
                      ELSE IF method \notin {<<"get-products">>, <<"sync-products">>,
                                             <<"ping">>, <<"initialize">>}
                      THEN isError(resp, -32601) /\ "process" \notin rpcEffects
                      ELSE IF rpcResult.called /\ ~rpcResult.success
                      THEN isError(resp, -32000)
                      ELSE "result" \in DOMAIN resp /\ "error" \notin DOMAIN resp

\* the shopify call of a command threw and the request was answered
FailedCommandAnswered ==
  /\ rpcPc = "done"
  /\ rpcRequest.id = <<"1">>
  /\ rpcResult = failed("Failed to fetch products")
  /\ rpcResponses = <<errorResponse(<<"1">>, -32000, "Failed to fetch products")>>

=============================================================================
